---- MODULE Spec2Model ----
(***************************************************************************)
(* Telemetry aggregation and parallel analysis orchestration of the       *)
(* pagespeed dashboard: the /api/ai/analyze handler (app.py), the         *)
(* provider fan-out (ai_service.py) and the OAuth token cache of the      *)
(* log-analytics client (azure_service.py).                               *)
(*                                                                         *)
(* The specifications share the variables:                                *)
(*   Spec        one /api/ai/analyze request, from validation to response *)
(*   OrchSpec    one direct call of run_parallel_analysis or              *)
(*               run_parallel_followup with arbitrary service arguments   *)
(*   TokenSeqSpec / TokenSpec                                             *)
(*               _get_token on one client, called by one thread / by two  *)
(*               threads, with a clock                                    *)
(*   ExecSpec    one execute_query call on one client                     *)
(*   ParseSpec, SearchSpec, DashboardSpec, PercentileSpec, TimeRangeSpec  *)
(*               one call of _parse_table_response, search_logs,          *)
(*               get_dashboard_summary, _extract_percentiles, and of the  *)
(*               two time-range parsers, over bounded arguments           *)
(*   OverviewSpec, ApmSpec, ProviderSpec                                  *)
(*               one call of get_performance_overview, get_apm_metrics,   *)
(*               and of a provider's analyze or follow_up                 *)
(***************************************************************************)
EXTENDS Integers, Sequences, FiniteSets, TLC

\* ------------------------------------------------------------------ bounds
MaxHist == 2        \* longest caller-supplied follow-up history
MaxTicks == 3       \* clock advances in the token model
MaxTokens == 2      \* token exchanges that may succeed in the token model

\* ------------------------------------------------------- program constants
MaxWorkers == 2     \* ThreadPoolExecutor(max_workers=2)
SafetyMargin == 60  \* timedelta(seconds=expires_in - 60)
DefaultExpiresIn == 3600  \* token_data.get('expires_in', 3600)

Providers == {"claude", "openai"}

\* ------------------------------------------------------------------- state
VARIABLES
    entry,          \* which top-level function this behaviour runs
    req,            \* the JSON body of the request (data = request.get_json())
    pc,             \* position of the request thread
    newrelic_data,  \* dict built in step 1 of ai_analyze
    iis_data,       \* dict built in step 2 of ai_analyze
    call_result,    \* cwv_result, perf_result, apm_result, summary_result, slow_result
    upstream,       \* upstream queries issued so far, in order
    azq,            \* index of the next query inside get_dashboard_summary
    user_message,   \* the assembled document (list of lines)
    svc,            \* claude_svc / openai_svc (resp. the service arguments)
    messages,       \* claude_messages / openai_messages of a follow-up
    results,        \* results dict of run_parallel_*
    futures,        \* futures submitted to the executor
    yielded,        \* futures already yielded by as_completed, in order
    calls,          \* provider methods invoked so far, in order
    response,       \* the HTTP response of ai_analyze
    token,          \* self.token
    token_expiry,   \* self.token_expiry
    now,            \* datetime.now()
    ticks,          \* how often the clock has advanced
    tpc,            \* position of each thread inside _get_token
    tlocal,         \* locals of each thread inside _get_token
    issued,         \* tokens handed out by the token endpoint
    served,         \* values returned by finished _get_token calls
    func,           \* the library function a direct call runs
    arg,            \* its argument(s)
    fpc,            \* position of the call
    out             \* what the call returned or raised

reqVars == <<entry, req, pc, newrelic_data, iis_data, call_result, upstream, azq,
             user_message, response>>
orchVars == <<svc, messages, results, futures, yielded, calls>>
tokenVars == <<token, token_expiry, now, ticks, tpc, tlocal, issued, served>>
callVars == <<func, arg, fpc, out>>
libVars == <<tokenVars, callVars>>
vars == <<reqVars, orchVars, tokenVars, callVars>>

\* ------------------------------------------------------------ result values
\* A provider result is None, a success dict or an error dict.
NoneResult == [tag |-> "none", msg |-> ""]
ModelId == [claude |-> "claude-sonnet-4-20250514", openai |-> "gpt-4o"]
SuccessResult(p) == [tag |-> "success", msg |-> ModelId[p]]
ErrorResult(m) == [tag |-> "error", msg |-> m]

\* What the provider SDK does with one request.
ApiOutcomes == {"ok", "auth_error", "rate_limit", "api_error", "other_error", "escape"}

NotConfiguredMsg == [claude |-> "Claude API key not configured",
                     openai |-> "OpenAI API key not configured"]
InvalidKeyMsg == [claude |-> "Invalid Claude API key",
                  openai |-> "Invalid OpenAI API key"]
RateLimitMsg == [claude |-> "Claude API rate limit exceeded. Please try again shortly.",
                 openai |-> "OpenAI API rate limit exceeded. Please try again shortly."]
ApiErrorMsg == [claude |-> "Claude API error: ...",
                openai |-> "Error calling OpenAI API: ..."]
OtherErrorMsg == [claude |-> "Error calling Claude API: ...",
                  openai |-> "Error calling OpenAI API: ..."]
UnexpectedMsg == [claude |-> "Unexpected error from claude: ...",
                  openai |-> "Unexpected error from openai: ..."]

\* OpenAIService catches every Exception and tells the errors apart by the
\* words of the lower-cased exception text (ai_service.py:160-166, 206-212);
\* text is the set of those words that the exception text contains.
ErrorWords == {"authentication", "api key", "rate limit"}
openai_error(text) ==
    IF "authentication" \in text \/ "api key" \in text THEN InvalidKeyMsg["openai"]
    ELSE IF "rate limit" \in text THEN RateLimitMsg["openai"]
    ELSE OtherErrorMsg["openai"]

\* ClaudeService catches by exception class (ai_service.py:55-62, 99-106).
claude_error(outcome) ==
    CASE outcome = "auth_error"  -> InvalidKeyMsg["claude"]
      [] outcome = "rate_limit"  -> RateLimitMsg["claude"]
      [] outcome = "api_error"   -> ApiErrorMsg["claude"]
      [] outcome = "other_error" -> OtherErrorMsg["claude"]

\* ClaudeService.analyze / OpenAIService.analyze: the value the method
\* returns; raised is TRUE when an exception leaves the method instead.
analyze(p, has_key, outcome, text) ==
    IF ~has_key THEN [raised |-> FALSE, ret |-> ErrorResult(NotConfiguredMsg[p])]
    ELSE IF outcome = "ok" THEN [raised |-> FALSE, ret |-> SuccessResult(p)]
    ELSE IF outcome = "escape" THEN [raised |-> TRUE, ret |-> NoneResult]
    ELSE IF p = "openai" THEN [raised |-> FALSE, ret |-> ErrorResult(openai_error(text))]
    ELSE [raised |-> FALSE, ret |-> ErrorResult(claude_error(outcome))]

\* ClaudeService.follow_up / OpenAIService.follow_up: same result shape.
follow_up(p, has_key, outcome, text) ==
    IF ~has_key THEN [raised |-> FALSE, ret |-> ErrorResult(NotConfiguredMsg[p])]
    ELSE IF outcome = "ok" THEN [raised |-> FALSE, ret |-> SuccessResult(p)]
    ELSE IF outcome = "escape" THEN [raised |-> TRUE, ret |-> NoneResult]
    ELSE IF p = "openai" THEN [raised |-> FALSE, ret |-> ErrorResult(openai_error(text))]
    ELSE [raised |-> FALSE, ret |-> ErrorResult(claude_error(outcome))]

\* ------------------------------------------------------- gathered data dicts
\* A dict value is absent (key not set), empty (falsy: {} or []) or nonempty.
NRKeys == {"core_web_vitals", "performance_overview", "apm_metrics"}
IISKeys == {"summary", "status_distribution", "top_pages", "slow_requests"}
EmptyDict(keys) == [k \in keys |-> "absent"]

\* bool(d) of a dict: it has at least one key.
DictNonEmpty(d) == \E k \in DOMAIN d : d[k] # "absent"

\* bool(d.get(k)): the key is set and its value is truthy.
Truthy_RendersEmpty(d, k) == d[k] # "absent"
Truthy(d, k) == d[k] = "nonempty"

\* json.dumps(value, indent=2, default=str) of a section's value.
json_dumps(k, shape) ==
    CASE k = "core_web_vitals" /\ shape = "nonempty" -> "{lcp: {p50: ..., p75: ..., p90: ...}, ...}"
      [] k = "slow_requests" /\ shape = "nonempty"   -> "[{csUriStem: ..., TimeTaken: ...}, ...]"
      [] k = "core_web_vitals"                       -> "{}"
      [] OTHER                                       -> "[]"

CWVHeading == "## New Relic: Core Web Vitals"
LogsHeading == "## IIS Logs: Requests for this URL"
NoDataMarker == "*No performance data was available from either source.*"
Header == <<"# Performance Analysis Request", "**URL:** /path", "**Time Range:** 1 hour ago", "">>

\* The condition under which build_user_message appends the marker.
MarkerCondition(nr, iis) == ~DictNonEmpty(nr) /\ ~DictNonEmpty(iis)

\* build_user_message: the list of lines joined by "\n".
build_user_message(nr, iis) ==
    Header
    \o (IF Truthy(nr, "core_web_vitals")
        THEN <<CWVHeading, json_dumps("core_web_vitals", nr["core_web_vitals"]), "">>
        ELSE <<>>)
    \o (IF Truthy(iis, "slow_requests")
        THEN <<LogsHeading, json_dumps("slow_requests", iis["slow_requests"]), "">>
        ELSE <<>>)
    \o (IF MarkerCondition(nr, iis) THEN <<NoDataMarker>> ELSE <<>>)

\* ------------------------------------------------------------ request inputs
\* url / page_url / nr / az: whether the field (resp. all the credentials of
\* the source) is present and truthy; keys: the providers whose API key is
\* supplied; providers: the selected providers.
Requests ==
    [url : BOOLEAN, page_url : BOOLEAN, nr : BOOLEAN, az : BOOLEAN,
     providers : SUBSET Providers, keys : SUBSET Providers]

UpstreamCalls == {"cwv", "perf", "apm", "summary", "search"}
NoFutures == [p \in Providers |-> [state |-> "unsubmitted", fn |-> "", raised |-> FALSE, ret |-> NoneResult]]
NoResponse == [status |-> 0, success |-> FALSE, claude |-> NoneResult, openai |-> NoneResult,
               newrelic |-> FALSE, iis_logs |-> FALSE]

\* The token variables outside the token specifications.
TokenIdle ==
    /\ token = 0
    /\ token_expiry = <<>>
    /\ now = 0
    /\ ticks = 0
    /\ tpc = <<>>
    /\ tlocal = <<>>
    /\ issued = <<>>
    /\ served = <<>>

\* The variables of a direct library call outside such a call.
NoCall == [valid |-> FALSE]
CallIdle ==
    /\ func = "none"
    /\ arg = <<>>
    /\ fpc = "idle"
    /\ out = NoCall

\* The orchestrator variables before run_parallel_* is entered.
OrchIdle ==
    /\ svc = [p \in Providers |-> "none"]
    /\ messages = [p \in Providers |-> <<>>]
    /\ results = [p \in Providers |-> NoneResult]
    /\ futures = NoFutures
    /\ yielded = <<>>
    /\ calls = <<>>

Init ==
    /\ entry = "ai_analyze"
    /\ req \in Requests
    /\ pc = "validate"
    /\ newrelic_data = EmptyDict(NRKeys)
    /\ iis_data = EmptyDict(IISKeys)
    /\ call_result = [c \in UpstreamCalls |-> "not_called"]
    /\ upstream = <<>>
    /\ azq = 0
    /\ user_message = <<>>
    /\ response = NoResponse
    /\ OrchIdle
    /\ TokenIdle
    /\ CallIdle

\* ------------------------------------------------- ai_analyze: validation
Reject(next_pc) ==
    /\ response' = [NoResponse EXCEPT !.status = 400]
    /\ pc' = next_pc

Validate ==
    /\ pc = "validate"
    /\ IF ~req.url \/ req.providers = {}
       THEN Reject("rejected_input")
       ELSE /\ pc' = "nr_start"
            /\ UNCHANGED response
    /\ UNCHANGED <<entry, req, newrelic_data, iis_data, call_result, upstream, azq, user_message>>
    /\ UNCHANGED <<orchVars, libVars>>

\* ------------------------------------- ai_analyze step 1: New Relic data
\* Outcome of one service call as the handler sees it: a dict with
\* success, an error dict, or an exception leaving the call.
CallOutcomes == {"success", "error", "raised"}

NRStart ==
    /\ pc = "nr_start"
    /\ pc' = IF req.nr THEN (IF req.page_url THEN "nr_cwv" ELSE "nr_perf") ELSE "az_start"
    /\ UNCHANGED <<entry, req, newrelic_data, iis_data, call_result, upstream, azq,
                   user_message, response>>
    /\ UNCHANGED <<orchVars, libVars>>

\* Where the handler goes on after a call made at position "at": to the
\* next statement, or out of the try block when the call raised; never back.
after_call_Retry(o, at, next_pc) ==
    IF o = "raised" THEN "az_start" ELSE IF o = "error" THEN at ELSE next_pc
after_call(o, at, next_pc) == IF o = "raised" THEN "az_start" ELSE next_pc

\* One call of the New Relic block: the call, the success test and the
\* assignment into newrelic_data; an exception leaves the whole block.
NRCall(at, call, key, next_pc) ==
    /\ pc = at
    /\ \E o \in CallOutcomes :
        /\ call_result' = [call_result EXCEPT ![call] = o]
        /\ newrelic_data' = IF o = "success"
                            THEN [newrelic_data EXCEPT ![key] = "nonempty"]
                            ELSE newrelic_data
        /\ pc' = after_call(o, at, next_pc)
    /\ upstream' = Append(upstream, call)
    /\ UNCHANGED <<entry, req, iis_data, azq, user_message, response>>
    /\ UNCHANGED <<orchVars, libVars>>

GatherCWV == NRCall("nr_cwv", "cwv", "core_web_vitals", "nr_perf")
GatherPerf == NRCall("nr_perf", "perf", "performance_overview", "nr_apm")
GatherAPM == NRCall("nr_apm", "apm", "apm_metrics", "az_start")

\* ---------------------------------------- ai_analyze step 2: IIS log data
Shapes == {"empty", "nonempty"}
DashboardQueries_Swapped == <<"summary_query", "status_query", "top_pages_query">>
DashboardQueries == <<"summary_query", "top_pages_query", "status_query">>

AZStart ==
    /\ pc = "az_start"
    /\ IF req.az
       THEN pc' = "az_summary" /\ azq' = 1
       ELSE pc' = "check_data" /\ UNCHANGED azq
    /\ UNCHANGED <<entry, req, newrelic_data, iis_data, call_result, upstream,
                   user_message, response>>
    /\ UNCHANGED <<orchVars, libVars>>

\* get_dashboard_summary, one execute_query per step; the step of the third
\* query also parses the three responses and stores the result in iis_data.
DashboardQuery ==
    /\ pc = "az_summary"
    /\ upstream' = Append(upstream, DashboardQueries[azq])
    /\ \/ /\ call_result' = [call_result EXCEPT !["summary"] = "error"]
          /\ pc' = "az_search"
          /\ UNCHANGED <<azq, iis_data>>
       \/ /\ azq < 3
          /\ azq' = azq + 1
          /\ UNCHANGED <<pc, call_result, iis_data>>
       \/ /\ azq = 3
          /\ \E shape \in Shapes :
                iis_data' = [iis_data EXCEPT !["summary"] = shape,
                                             !["status_distribution"] = shape,
                                             !["top_pages"] = shape]
          /\ call_result' = [call_result EXCEPT !["summary"] = "success"]
          /\ pc' = "az_search"
          /\ UNCHANGED azq
       \/ /\ call_result' = [call_result EXCEPT !["summary"] = "raised"]
          /\ pc' = "check_data"
          /\ UNCHANGED <<azq, iis_data>>
    /\ UNCHANGED <<entry, req, newrelic_data, user_message, response>>
    /\ UNCHANGED <<orchVars, libVars>>

GatherSearch ==
    /\ pc = "az_search"
    /\ upstream' = Append(upstream, "search")
    /\ \/ \E shape \in Shapes :
            /\ call_result' = [call_result EXCEPT !["search"] = "success"]
            /\ iis_data' = [iis_data EXCEPT !["slow_requests"] = shape]
       \/ \E o \in {"error", "raised"} :
            /\ call_result' = [call_result EXCEPT !["search"] = o]
            /\ UNCHANGED iis_data
    /\ pc' = "check_data"
    /\ UNCHANGED <<entry, req, newrelic_data, azq, user_message, response>>
    /\ UNCHANGED <<orchVars, libVars>>

\* ------------------------------------------ ai_analyze step 3: data check
NoData_Or(nr, iis) == ~DictNonEmpty(nr) \/ ~DictNonEmpty(iis)
NoData(nr, iis) == ~DictNonEmpty(nr) /\ ~DictNonEmpty(iis)

CheckData ==
    /\ pc = "check_data"
    /\ IF NoData(newrelic_data, iis_data)
       THEN Reject("rejected_nodata")
       ELSE /\ pc' = "build"
            /\ UNCHANGED response
    /\ UNCHANGED <<entry, req, newrelic_data, iis_data, call_result, upstream, azq, user_message>>
    /\ UNCHANGED <<orchVars, libVars>>

\* -------------------------------- ai_analyze step 4: prompt and services
\* claude_svc / openai_svc: constructed only for a selected provider whose
\* key is supplied, otherwise None.
ServiceFor_AnyKey(p) == IF p \in req.keys THEN "keyed" ELSE "none"
ServiceFor(p) == IF p \in req.providers /\ p \in req.keys THEN "keyed" ELSE "none"

BuildPrompt ==
    /\ pc = "build"
    /\ user_message' = build_user_message(newrelic_data, iis_data)
    /\ svc' = [p \in Providers |-> ServiceFor(p)]
    /\ results' = [p \in Providers |-> NoneResult]
    /\ pc' = "submit_claude"
    /\ UNCHANGED <<entry, req, newrelic_data, iis_data, call_result, upstream, azq, response>>
    /\ UNCHANGED <<messages, futures, yielded, calls>>
    /\ UNCHANGED libVars

\* What a provider method hands to its SDK: ClaudeService passes the system
\* prompt as system= and the message list as it is; OpenAIService builds
\* [{"role": "system", ...}] + messages. A message is written as its role,
\* no request is made without an API key, and a first analysis sends the
\* one user message.
SystemPrompt == "system_prompt"
NoRequest == [made |-> FALSE, system |-> "", messages |-> <<>>]
full_messages(msgs) == <<"system">> \o msgs
request(p, has_key, msgs) ==
    IF ~has_key THEN NoRequest
    ELSE IF p = "claude" THEN [made |-> TRUE, system |-> SystemPrompt, messages |-> msgs]
    ELSE [made |-> TRUE, system |-> "", messages |-> full_messages(msgs)]

\* The caller's list after follow_up has built its request: the
\* concatenation makes a new list and the list itself is left as it was.
history_after_Insert(p, msgs) == IF p = "openai" THEN full_messages(msgs) ELSE msgs
history_after(p, msgs) == msgs

\* ------------------------------------------------------ run_parallel_*
SubmitPc == [claude |-> "submit_claude", openai |-> "submit_openai"]
AfterSubmit == [claude |-> "submit_openai", openai |-> "collect"]

Submitted == {p \in Providers : futures[p].state # "unsubmitted"}
Running == {p \in Providers : futures[p].state = "running"}
YieldedSet == {yielded[i] : i \in 1..Len(yielded)}

\* executor.submit(fn, ...): a new pending future.
submit(p, fn) ==
    futures' = [futures EXCEPT ![p] = [state |-> "pending", fn |-> fn,
                                       raised |-> FALSE, ret |-> NoneResult]]

\* run_parallel_analysis: "if <p>_service: futures[executor.submit(...)] = p".
SubmitAnalysis(p) ==
    /\ entry \in {"ai_analyze", "run_parallel_analysis"}
    /\ pc = SubmitPc[p]
    /\ IF svc[p] # "none" THEN submit(p, "analyze") ELSE UNCHANGED futures
    /\ pc' = AfterSubmit[p]
    /\ UNCHANGED <<svc, messages, results, yielded, calls>>
    /\ UNCHANGED <<entry, req, newrelic_data, iis_data, call_result, upstream, azq,
                   user_message, response>>
    /\ UNCHANGED libVars

\* run_parallel_followup: "if <p>_service and <p>_messages: ...submit(...)".
SubmitFollowup(p) ==
    /\ entry = "run_parallel_followup"
    /\ pc = SubmitPc[p]
    /\ IF svc[p] # "none" /\ messages[p] # <<>>
       THEN submit(p, "follow_up")
       ELSE UNCHANGED futures
    /\ pc' = AfterSubmit[p]
    /\ UNCHANGED <<svc, messages, results, yielded, calls>>
    /\ UNCHANGED <<entry, req, newrelic_data, iis_data, call_result, upstream, azq,
                   user_message, response>>
    /\ UNCHANGED libVars

\* A pool thread takes a pending future and invokes the provider method.
WorkerStart(p) ==
    /\ futures[p].state = "pending"
    /\ Cardinality(Running) < MaxWorkers
    /\ futures' = [futures EXCEPT ![p].state = "running"]
    /\ LET history == IF futures[p].fn = "follow_up" THEN messages[p] ELSE <<>>
           sent == IF futures[p].fn = "follow_up" THEN messages[p] ELSE <<"user">>
       IN calls' = Append(calls, [provider |-> p, fn |-> futures[p].fn,
                                  system_prompt |-> SystemPrompt, history |-> history,
                                  request |-> request(p, svc[p] = "keyed", sent)])
    /\ UNCHANGED <<svc, messages, results, yielded>>
    /\ UNCHANGED <<reqVars, libVars>>

\* The provider method returns or raises; the future becomes done.
WorkerFinish(p) ==
    /\ futures[p].state = "running"
    /\ \E o \in ApiOutcomes, text \in SUBSET ErrorWords :
        LET r == IF futures[p].fn = "analyze"
                 THEN analyze(p, svc[p] = "keyed", o, text)
                 ELSE follow_up(p, svc[p] = "keyed", o, text)
        IN futures' = [futures EXCEPT ![p].state = "done",
                                      ![p].raised = r.raised,
                                      ![p].ret = r.ret]
    /\ messages' = IF futures[p].fn = "follow_up" /\ svc[p] = "keyed"
                   THEN [messages EXCEPT ![p] = history_after(p, messages[p])]
                   ELSE messages
    /\ UNCHANGED <<svc, results, yielded, calls>>
    /\ UNCHANGED <<reqVars, libVars>>

\* The body of the as_completed loop for the future of provider p:
\* results[provider] = future.result(), or the error dict when it raises.
collect_Propagates(res, p, f) ==
    IF f.raised
    THEN [q \in Providers |-> NoneResult]
    ELSE [res EXCEPT ![p] = f.ret]
collect(res, p, f) ==
    IF f.raised
    THEN [res EXCEPT ![p] = ErrorResult(UnexpectedMsg[p])]
    ELSE [res EXCEPT ![p] = f.ret]

\* as_completed(futures) yields a future once it is done, each one once.
Collect(p) ==
    /\ pc = "collect"
    /\ p \in Submitted
    /\ p \notin YieldedSet
    /\ futures[p].state = "done"
    /\ results' = collect(results, p, futures[p])
    /\ yielded' = Append(yielded, p)
    /\ UNCHANGED <<svc, messages, futures, calls>>
    /\ UNCHANGED <<reqVars, libVars>>

CollectAnalysis(p) == entry \in {"ai_analyze", "run_parallel_analysis"} /\ Collect(p)
CollectFollowup(p) == entry = "run_parallel_followup" /\ Collect(p)

\* The loop ends when as_completed has yielded every submitted future; the
\* with block then leaves through executor.shutdown(wait=True).
AllYielded_First == Submitted = {} \/ YieldedSet # {}
AllYielded == Submitted \subseteq YieldedSet

Return ==
    /\ pc = "collect"
    /\ AllYielded
    /\ pc' = "returned"
    /\ UNCHANGED <<entry, req, newrelic_data, iis_data, call_result, upstream, azq,
                   user_message, response>>
    /\ UNCHANGED <<orchVars, libVars>>

ReturnAnalysis == entry \in {"ai_analyze", "run_parallel_analysis"} /\ Return
ReturnFollowup == entry = "run_parallel_followup" /\ Return

\* ------------------------------------------- ai_analyze step 5: response
Respond ==
    /\ entry = "ai_analyze"
    /\ pc = "returned"
    /\ response' = [status |-> 200, success |-> TRUE,
                    claude |-> results["claude"], openai |-> results["openai"],
                    newrelic |-> DictNonEmpty(newrelic_data),
                    iis_logs |-> DictNonEmpty(iis_data)]
    /\ pc' = "completed"
    /\ UNCHANGED <<entry, req, newrelic_data, iis_data, call_result, upstream, azq, user_message>>
    /\ UNCHANGED <<orchVars, libVars>>

\* ---------------------------------------------------------- specifications
Next ==
    \/ Validate
    \/ NRStart \/ GatherCWV \/ GatherPerf \/ GatherAPM
    \/ AZStart \/ DashboardQuery \/ GatherSearch
    \/ CheckData
    \/ BuildPrompt
    \/ \E p \in Providers : SubmitAnalysis(p) \/ WorkerStart(p) \/ WorkerFinish(p) \/ CollectAnalysis(p)
    \/ ReturnAnalysis
    \/ Respond

Spec == Init /\ [][Next]_vars

\* A direct call of one of the two orchestrators: any service arguments
\* (None, a service with a key, a service without one) and any histories.
Histories == UNION {[1..n -> {"user", "assistant"}] : n \in 0..MaxHist}

OrchInit ==
    /\ entry \in {"run_parallel_analysis", "run_parallel_followup"}
    /\ req = [url |-> TRUE, page_url |-> FALSE, nr |-> FALSE, az |-> FALSE,
              providers |-> {}, keys |-> {}]
    /\ pc = "submit_claude"
    /\ newrelic_data = EmptyDict(NRKeys)
    /\ iis_data = EmptyDict(IISKeys)
    /\ call_result = [c \in UpstreamCalls |-> "not_called"]
    /\ upstream = <<>>
    /\ azq = 0
    /\ user_message = <<>>
    /\ response = NoResponse
    /\ svc \in [Providers -> {"none", "keyed", "nokey"}]
    /\ messages \in IF entry = "run_parallel_followup"
                    THEN [Providers -> Histories]
                    ELSE {[p \in Providers |-> <<>>]}
    /\ results = [p \in Providers |-> NoneResult]
    /\ futures = NoFutures
    /\ yielded = <<>>
    /\ calls = <<>>
    /\ TokenIdle
    /\ CallIdle

OrchNext ==
    \/ \E p \in Providers : SubmitAnalysis(p) \/ SubmitFollowup(p)
    \/ \E p \in Providers : WorkerStart(p) \/ WorkerFinish(p)
    \/ \E p \in Providers : CollectAnalysis(p) \/ CollectFollowup(p)
    \/ ReturnAnalysis \/ ReturnFollowup

OrchSpec == OrchInit /\ [][OrchNext]_vars

\* ------------------------------------- AzureLogAnalyticsService._get_token
\* self.token is 0 for None, otherwise the id of a token (a non-empty
\* string); self.token_expiry is <<>> for None, otherwise <<time>>.
\* issued[k] records what the endpoint answered for token k (the expires_in
\* field, <<>> when absent) and the clock reading at which the client
\* computed its expiry (<<>> until then). A call keeps, in cached and
\* cached_expiry, the two fields as it found them on entry.
Lifetimes == {30, 61, 62}
ExpiresInFields == {<<>>} \cup {<<e>> : e \in Lifetimes}
TickSteps == {1, 3539}
NoLocals == [at |-> 0, cached |-> 0, cached_expiry |-> <<>>, tok |-> 0, expires_in |-> <<>>]
NotServed == [valid |-> FALSE, at |-> 0, cached |-> 0, cached_expiry |-> <<>>,
              value |-> 0, exchanged |-> FALSE]

\* An expires_in field that is absent or a number, as opposed to one that
\* holds another JSON value (written <<"string", s>>).
IsNumberField(field) == Len(field) < 2
MalformedExpiresIn == <<"string", "3599">>

\* token_data.get('expires_in', 3600)
get_expires_in(field) == IF field = <<>> THEN DefaultExpiresIn ELSE field[1]

\* datetime.now() + timedelta(seconds=expires_in - 60)
expiry(t, expires_in) == t + (expires_in - SafetyMargin)

\* self.token and self.token_expiry and datetime.now() < self.token_expiry
cache_valid_Inclusive(t) == token # 0 /\ token_expiry # <<>> /\ t <= token_expiry[1]
cache_valid(t) == token # 0 /\ token_expiry # <<>> /\ t < token_expiry[1]

TokenUnchangedRest == UNCHANGED <<reqVars, orchVars, callVars>>

\* Line 20-21: the cache test; a valid cache returns self.token at once.
GetToken(t) ==
    /\ tpc[t] = "idle"
    /\ IF cache_valid(now)
       THEN /\ served' = [served EXCEPT ![t] = [valid |-> TRUE, at |-> now, cached |-> token,
                                                cached_expiry |-> token_expiry,
                                                value |-> token, exchanged |-> FALSE]]
            /\ UNCHANGED <<tpc, tlocal>>
       ELSE /\ tpc' = [tpc EXCEPT ![t] = "post"]
            /\ tlocal' = [tlocal EXCEPT ![t] = [NoLocals EXCEPT !.at = now, !.cached = token,
                                                               !.cached_expiry = token_expiry]]
            /\ UNCHANGED served
    /\ UNCHANGED <<token, token_expiry, now, ticks, issued>>
    /\ TokenUnchangedRest

\* Lines 33-35 and 43-46: the exchange fails (transport error, non-2xx,
\* no access_token); the error dict is returned, the cache is untouched.
ExchangeFails(t) ==
    /\ tpc[t] = "post"
    /\ tpc' = [tpc EXCEPT ![t] = "idle"]
    /\ served' = [served EXCEPT ![t] = [valid |-> TRUE, at |-> tlocal[t].at,
                                        cached |-> tlocal[t].cached,
                                        cached_expiry |-> tlocal[t].cached_expiry,
                                        value |-> 0, exchanged |-> TRUE]]
    /\ tlocal' = [tlocal EXCEPT ![t] = NoLocals]
    /\ UNCHANGED <<token, token_expiry, now, ticks, issued>>
    /\ TokenUnchangedRest

\* Lines 33-35: the endpoint answers with a fresh token.
ExchangeSucceeds(t) ==
    /\ tpc[t] = "post"
    /\ Len(issued) < MaxTokens
    /\ \E f \in ExpiresInFields :
        /\ issued' = Append(issued, [expires_in |-> f, stored_at |-> <<>>])
        /\ tlocal' = [tlocal EXCEPT ![t].tok = Len(issued) + 1, ![t].expires_in = f]
    /\ tpc' = [tpc EXCEPT ![t] = "store_token"]
    /\ UNCHANGED <<token, token_expiry, now, ticks, served>>
    /\ TokenUnchangedRest

\* Line 37: self.token = token_data['access_token']
StoreToken(t) ==
    /\ tpc[t] = "store_token"
    /\ token' = tlocal[t].tok
    /\ tpc' = [tpc EXCEPT ![t] = "store_expiry"]
    /\ UNCHANGED <<token_expiry, now, ticks, tlocal, issued, served>>
    /\ TokenUnchangedRest

\* Lines 38-39: self.token_expiry = datetime.now() + timedelta(...)
StoreExpiry(t) ==
    /\ tpc[t] = "store_expiry"
    /\ IsNumberField(tlocal[t].expires_in)
    /\ token_expiry' = <<expiry(now, get_expires_in(tlocal[t].expires_in))>>
    /\ issued' = [issued EXCEPT ![tlocal[t].tok].stored_at = <<now>>]
    /\ tpc' = [tpc EXCEPT ![t] = "return"]
    /\ UNCHANGED <<token, now, ticks, tlocal, served>>
    /\ TokenUnchangedRest

\* Line 41: return self.token
ReturnToken(t) ==
    /\ tpc[t] = "return"
    /\ served' = [served EXCEPT ![t] = [valid |-> TRUE, at |-> tlocal[t].at,
                                        cached |-> tlocal[t].cached,
                                        cached_expiry |-> tlocal[t].cached_expiry,
                                        value |-> token, exchanged |-> TRUE]]
    /\ tpc' = [tpc EXCEPT ![t] = "idle"]
    /\ tlocal' = [tlocal EXCEPT ![t] = NoLocals]
    /\ UNCHANGED <<token, token_expiry, now, ticks, issued>>
    /\ TokenUnchangedRest

\* The clock advances by one of the given amounts of seconds.
Advance(steps) ==
    /\ ticks < MaxTicks
    /\ \E d \in steps : now' = now + d
    /\ ticks' = ticks + 1
    /\ UNCHANGED <<token, token_expiry, tpc, tlocal, issued, served>>
    /\ TokenUnchangedRest

Tick == Advance(TickSteps)
TickSecond == Advance({1})

TokenInit(threads) ==
    /\ entry = "_get_token"
    /\ req = [url |-> TRUE, page_url |-> FALSE, nr |-> FALSE, az |-> FALSE,
              providers |-> {}, keys |-> {}]
    /\ pc = "idle"
    /\ newrelic_data = EmptyDict(NRKeys)
    /\ iis_data = EmptyDict(IISKeys)
    /\ call_result = [c \in UpstreamCalls |-> "not_called"]
    /\ upstream = <<>>
    /\ azq = 0
    /\ user_message = <<>>
    /\ response = NoResponse
    /\ OrchIdle
    /\ token = 0
    /\ token_expiry = <<>>
    /\ now = 0
    /\ ticks = 0
    /\ tpc = [t \in threads |-> "idle"]
    /\ tlocal = [t \in threads |-> NoLocals]
    /\ issued = <<>>
    /\ served = [t \in threads |-> NotServed]
    /\ CallIdle

Threads == {1, 2}

ThreadStep(t) ==
    \/ GetToken(t)
    \/ ExchangeFails(t)
    \/ ExchangeSucceeds(t)
    \/ StoreToken(t)
    \/ StoreExpiry(t)
    \/ ReturnToken(t)

\* One caller at a time, with large and small clock steps.
TokenSeqInit == TokenInit({1})
TokenSeqNext == ThreadStep(1) \/ Tick
TokenSeqSpec == TokenSeqInit /\ [][TokenSeqNext]_vars

\* Two concurrent callers on the same client, the clock advancing by seconds.
TokenConcInit == TokenInit(Threads)
TokenNext == (\E t \in Threads : ThreadStep(t)) \/ TickSecond
TokenSpec == TokenConcInit /\ [][TokenNext]_vars

\* ------------------------------ AzureLogAnalyticsService.execute_query
\* Lines 33-38: the endpoint answers 200 with an access_token and an
\* expires_in that is not a number.
ExchangeMalformed(t) ==
    /\ tpc[t] = "post"
    /\ Len(issued) < MaxTokens
    /\ issued' = Append(issued, [expires_in |-> MalformedExpiresIn, stored_at |-> <<>>])
    /\ tlocal' = [tlocal EXCEPT ![t].tok = Len(issued) + 1, ![t].expires_in = MalformedExpiresIn]
    /\ tpc' = [tpc EXCEPT ![t] = "store_token"]
    /\ UNCHANGED <<token, token_expiry, now, ticks, served>>
    /\ TokenUnchangedRest

\* Line 39 with such a field: expires_in - 60 raises TypeError, which no
\* except clause of _get_token names; self.token_expiry is not assigned.
StoreExpiryRaises(t) ==
    /\ tpc[t] = "store_expiry"
    /\ ~IsNumberField(tlocal[t].expires_in)
    /\ tpc' = [tpc EXCEPT ![t] = "raised"]
    /\ UNCHANGED <<token, token_expiry, now, ticks, tlocal, issued, served>>
    /\ TokenUnchangedRest

\* What the workspace endpoint does with the posted query.
PostOutcomes == {"ok", "forbidden", "timeout", "http_error", "connection_error", "invalid_json"}

TokenErrorMsgs == {"Failed to acquire Azure token: ...", "Invalid token response from Azure: ..."}
ForbiddenMsg == "Access denied. Ensure the app registration has Log Analytics Reader role on the workspace."
TimeoutMsg == "Request to Azure Log Analytics timed out"
UpstreamMsg == "Error calling Azure Log Analytics: ..."
InvalidJsonMsg == "Invalid JSON response from Azure Log Analytics"

\* The outcome of a call: a returned value (the payload or an error dict)
\* or an exception; cause records what the environment did.
Returned(cause, payload, error) ==
    [valid |-> TRUE, cause |-> cause, raised |-> FALSE, payload |-> payload, error |-> error]
Raised(cause, exc) ==
    [valid |-> TRUE, cause |-> cause, raised |-> TRUE, payload |-> FALSE, error |-> exc]

\* Lines 72-91: the results the post can have. An undecodable 2xx body
\* raises an exception that is a RequestException or a json.JSONDecodeError,
\* depending on the installed requests.
post_result(o) ==
    CASE o = "ok"               -> {Returned(o, TRUE, "")}
      [] o = "forbidden"        -> {Returned(o, FALSE, ForbiddenMsg)}
      [] o = "timeout"          -> {Returned(o, FALSE, TimeoutMsg)}
      [] o = "http_error"       -> {Returned(o, FALSE, UpstreamMsg)}
      [] o = "connection_error" -> {Returned(o, FALSE, UpstreamMsg)}
      [] o = "invalid_json"     -> {Returned(o, FALSE, UpstreamMsg), Returned(o, FALSE, InvalidJsonMsg)}

\* Line 59: execute_query is entered and calls self._get_token().
ExecuteQuery ==
    /\ func = "execute_query"
    /\ fpc = "idle"
    /\ fpc' = "get_token"
    /\ served' = [served EXCEPT ![1] = NotServed]
    /\ out' = NoCall
    /\ UNCHANGED <<func, arg>>
    /\ UNCHANGED <<token, token_expiry, now, ticks, tpc, tlocal, issued>>
    /\ UNCHANGED <<reqVars, orchVars>>

\* The cache test of that _get_token call.
ExecGetToken ==
    /\ fpc = "get_token"
    /\ ~served[1].valid
    /\ GetToken(1)

\* Lines 60-61: _get_token returned an error dict, which is returned as is.
ExecTokenError ==
    /\ fpc = "get_token"
    /\ served[1].valid /\ served[1].value = 0
    /\ \E m \in TokenErrorMsgs : out' = Returned("token_failed", FALSE, m)
    /\ fpc' = "idle"
    /\ UNCHANGED <<func, arg>>
    /\ UNCHANGED <<tokenVars, reqVars, orchVars>>

\* Line 59 when _get_token raised: the exception leaves execute_query.
ExecTokenRaised ==
    /\ fpc = "get_token"
    /\ tpc[1] = "raised"
    /\ out' = Raised("token_malformed", "TypeError")
    /\ fpc' = "idle"
    /\ tpc' = [tpc EXCEPT ![1] = "idle"]
    /\ tlocal' = [tlocal EXCEPT ![1] = NoLocals]
    /\ UNCHANGED <<func, arg>>
    /\ UNCHANGED <<token, token_expiry, now, ticks, issued, served>>
    /\ UNCHANGED <<reqVars, orchVars>>

\* Lines 63-91: with a token, the query is posted and the answer returned.
ExecPost ==
    /\ fpc = "get_token"
    /\ served[1].valid /\ served[1].value # 0
    /\ \E o \in PostOutcomes : \E r \in post_result(o) : out' = r
    /\ fpc' = "idle"
    /\ UNCHANGED <<func, arg>>
    /\ UNCHANGED <<tokenVars, reqVars, orchVars>>

ExecInit ==
    /\ entry = "execute_query"
    /\ req = [url |-> TRUE, page_url |-> FALSE, nr |-> FALSE, az |-> FALSE,
              providers |-> {}, keys |-> {}]
    /\ pc = "idle"
    /\ newrelic_data = EmptyDict(NRKeys)
    /\ iis_data = EmptyDict(IISKeys)
    /\ call_result = [c \in UpstreamCalls |-> "not_called"]
    /\ upstream = <<>>
    /\ azq = 0
    /\ user_message = <<>>
    /\ response = NoResponse
    /\ OrchIdle
    /\ token = 0
    /\ token_expiry = <<>>
    /\ now = 0
    /\ ticks = 0
    /\ tpc = [t \in {1} |-> "idle"]
    /\ tlocal = [t \in {1} |-> NoLocals]
    /\ issued = <<>>
    /\ served = [t \in {1} |-> NotServed]
    /\ func = "execute_query"
    /\ arg \in {<<"query">>, <<"query", "PT24H">>}
    /\ fpc = "idle"
    /\ out = NoCall

ExecNext ==
    \/ ExecuteQuery
    \/ ExecGetToken
    \/ ExchangeFails(1) \/ ExchangeSucceeds(1) \/ ExchangeMalformed(1)
    \/ StoreToken(1) \/ StoreExpiry(1) \/ StoreExpiryRaises(1) \/ ReturnToken(1)
    \/ ExecTokenError \/ ExecTokenRaised \/ ExecPost
    \/ Tick

ExecSpec == ExecInit /\ [][ExecNext]_vars

\* --------------------------------------------------- direct library calls
\* The remaining variables while a library function is called directly.
LibraryIdle ==
    /\ entry = "library"
    /\ req = [url |-> TRUE, page_url |-> FALSE, nr |-> FALSE, az |-> FALSE,
              providers |-> {}, keys |-> {}]
    /\ pc = "idle"
    /\ newrelic_data = EmptyDict(NRKeys)
    /\ iis_data = EmptyDict(IISKeys)
    /\ call_result = [c \in UpstreamCalls |-> "not_called"]
    /\ upstream = <<>>
    /\ azq = 0
    /\ user_message = <<>>
    /\ response = NoResponse
    /\ OrchIdle
    /\ TokenIdle

\* A call that returned v, resp. that was left by exception e.
Ret(v) == [valid |-> TRUE, raised |-> FALSE, exc |-> "", ret |-> v]
Exc(e) == [valid |-> TRUE, raised |-> TRUE, exc |-> e, ret |-> <<>>]

\* The function is applied to its argument(s) and the call is over.
Apply(f, result) ==
    /\ func = f
    /\ fpc = "idle"
    /\ out' = result
    /\ fpc' = "done"
    /\ UNCHANGED <<func, arg>>
    /\ UNCHANGED <<reqVars, orchVars, tokenVars>>

\* ------------------------------------------------------------ JSON values
\* A decoded JSON value is a type tag with the content in the field of that
\* type; JMissing stands for a key that an object does not have.
JMissing == [t |-> "missing"]
JNull == [t |-> "null"]
JNum(n) == [t |-> "num", num |-> n]
JStr(s) == [t |-> "str", str |-> s]
JList(seq) == [t |-> "list", list |-> seq]
JObj(fields) == [t |-> "obj", obj |-> fields]

\* d.get(k, default) of a dict d.
get(d, k, default) == IF d.obj[k].t = "missing" THEN default ELSE d.obj[k]

\* "not x": the truth value of x is false.
Falsy(x) ==
    \/ x.t = "null"
    \/ x.t = "list" /\ x.list = <<>>
    \/ x.t = "str" /\ x.str = ""
    \/ x.t = "num" /\ x.num = 0

\* Iteration over a value: the items of a list, the characters of a str.
Chars(s) == CASE s = "" -> <<>> [] s = "xy" -> <<JStr("x"), JStr("y")>> [] OTHER -> <<JStr(s)>>
Iterable(x) == x.t \in {"list", "str"}
Items(x) == IF x.t = "list" THEN x.list ELSE Chars(x.str)

\* zip(a, b) and dict(pairs) on sequences; a dict is written as the
\* sequence of its <<key, value>> items in insertion order.
zip(a, b) == [i \in 1..(IF Len(a) < Len(b) THEN Len(a) ELSE Len(b)) |-> <<a[i], b[i]>>]
RECURSIVE dict(_)
dict(pairs) ==
    IF pairs = <<>> THEN <<>>
    ELSE LET init == dict(SubSeq(pairs, 1, Len(pairs) - 1))
             last == pairs[Len(pairs)]
         IN IF \E i \in 1..Len(init) : init[i][1] = last[1]
            THEN [i \in 1..Len(init) |-> IF init[i][1] = last[1] THEN last ELSE init[i]]
            ELSE Append(init, last)

\* ------------------- AzureLogAnalyticsService._parse_table_response
MaxCols == 2        \* longest column list, widest row
MaxRows == 2        \* most rows of a table

SeqsUpTo(S, n) == UNION {[1..k -> S] : k \in 0..n}

\* The responses the function is applied to.
CellValues == {JNum(1), JNull}
ColumnEntries == {JObj([name |-> JStr("a")]), JObj([name |-> JStr("b")]),
                  JObj([name |-> JMissing]), JStr("a")}
ColumnsValues == {JMissing, JNull} \cup {JList(s) : s \in SeqsUpTo(ColumnEntries, MaxCols)}
RowEntries == {JList(s) : s \in SeqsUpTo(CellValues, MaxCols)} \cup {JNum(5), JNull, JStr("xy")}
RowsValues == {JMissing, JNull} \cup {JList(s) : s \in SeqsUpTo(RowEntries, MaxRows)}
SingleRowValues == {JMissing, JNull} \cup {JList(s) : s \in SeqsUpTo(RowEntries, 1)}
UsualColumns == JList(<<JObj([name |-> JStr("a")]), JObj([name |-> JStr("b")])>>)
\* Every columns value with at most one row, and every rows value with the
\* usual two columns.
TableValues == {JObj([columns |-> c, rows |-> r]) : c \in ColumnsValues, r \in SingleRowValues}
                  \cup {JObj([columns |-> UsualColumns, rows |-> r]) : r \in RowsValues}
                  \cup {JNull, JStr("t")}
TablesValues == {JMissing, JNull, JList(<<>>)} \cup {JList(<<tb>>) : tb \in TableValues}
TableResponses == {JObj([tables |-> ts]) : ts \in TablesValues}
                     \cup {JNull, JList(<<>>), JStr("x")}

\* Line 105: [col['name'] for col in table.get('columns', [])]
column_names(columns) ==
    IF ~Iterable(columns) THEN Exc("TypeError")
    ELSE IF \E i \in 1..Len(Items(columns)) : Items(columns)[i].t # "obj"
         THEN Exc("TypeError")
    ELSE IF \E i \in 1..Len(Items(columns)) : Items(columns)[i].obj["name"].t = "missing"
         THEN Exc("KeyError")
    ELSE Ret([i \in 1..Len(Items(columns)) |-> Items(columns)[i].obj["name"]])

\* Line 108: [dict(zip(columns, row)) for row in rows]
records(names, rows) ==
    IF ~Iterable(rows) THEN Exc("TypeError")
    ELSE IF \E i \in 1..Len(Items(rows)) : ~Iterable(Items(rows)[i])
         THEN Exc("TypeError")
    ELSE Ret([i \in 1..Len(Items(rows)) |-> dict(zip(names, Items(Items(rows)[i])))])

\* Lines 104-108, for a non-empty list of tables.
parse_table(table) ==
    IF table.t # "obj" THEN Exc("AttributeError")
    ELSE LET columns == column_names(get(table, "columns", JList(<<>>)))
         IN IF columns.raised THEN columns
            ELSE records(columns.ret, get(table, "rows", JList(<<>>)))

\* Lines 99-112: the except clause names KeyError, IndexError and
\* TypeError; any other exception leaves the function.
CaughtByParse == {"KeyError", "IndexError", "TypeError"}
_parse_table_response(resp) ==
    LET body ==
            IF resp.t # "obj" THEN Exc("AttributeError")
            ELSE LET tables == get(resp, "tables", JList(<<>>))
                 IN IF Falsy(tables) THEN Ret(<<>>)
                    ELSE parse_table(tables.list[1])
    IN IF body.raised /\ body.exc \in CaughtByParse THEN Ret(<<>>) ELSE body

ParseTableResponse == Apply("_parse_table_response", _parse_table_response(arg[1]))

ParseInit ==
    /\ LibraryIdle
    /\ func = "_parse_table_response"
    /\ arg \in {<<r>> : r \in TableResponses}
    /\ fpc = "idle"
    /\ out = NoCall

ParseNext == ParseTableResponse
ParseSpec == ParseInit /\ [][ParseNext]_vars

\* ------------------------------ AzureLogAnalyticsService.search_logs
\* A text is written as the sequence of its pieces, so that the string
\* operators of the query language have something to work on.
contains(text, piece) ==
    \E i \in 1..(Len(text) - Len(piece) + 1) : SubSeq(text, i, i + Len(piece) - 1) = piece
startswith(text, piece) ==
    Len(piece) <= Len(text) /\ SubSeq(text, 1, Len(piece)) = piece
endswith(text, piece) ==
    Len(piece) <= Len(text) /\ SubSeq(text, Len(text) - Len(piece) + 1, Len(text)) = piece

\* Lines 170-179: the suffixes excluded by the fixed filters, in order.
StaticSuffixes_NoMap ==
    <<".css", ".js", ".png", ".jpg", ".gif", ".ico", ".woff", ".woff2", ".svg">>
StaticSuffixes ==
    <<".css", ".js", ".png", ".jpg", ".gif", ".ico", ".woff", ".woff2", ".svg", ".map">>

\* One "where" condition of the query.
Clause(col, op, val) == [col |-> col, op |-> op, val |-> val]

\* Lines 168-193: the list filters.
filters(a) ==
    <<Clause("TimeGenerated", "between", <<a.start_date, a.end_date>>)>>
    \o [i \in 1..Len(StaticSuffixes) |-> Clause("csUriStem", "!endswith", <<StaticSuffixes[i]>>)]
    \o (IF a.url_filter # <<>>
        THEN <<Clause("csUriStem", "contains", a.url_filter)>> ELSE <<>>)
    \o (IF a.status_code # <<>>
        THEN (IF Len(a.status_code) = 1
              THEN <<Clause("scStatus", "startswith", a.status_code)>>
              ELSE <<Clause("scStatus", "==", a.status_code)>>)
        ELSE <<>>)
    \o (IF a.site_name # <<>>
        THEN <<Clause("sSiteName", "==", a.site_name)>> ELSE <<>>)

\* Lines 195-201: the query; '\n| where '.join(filters) makes every filter
\* a where stage of its own.
ProjectedColumns ==
    <<"TimeGenerated", "csMethod", "csUriStem", "csUriQuery", "scStatus", "TimeTaken",
      "cIP", "sSiteName", "scBytes">>
query(a) ==
    [from |-> "W3CIISLog", where |-> filters(a), project |-> ProjectedColumns,
     order_by |-> "TimeGenerated desc", take |-> a.limit]

\* The rows of the W3CIISLog table in the workspace.
LoggedSuffixes ==
    <<".css", ".js", ".png", ".jpg", ".gif", ".ico", ".woff", ".woff2", ".svg", ".map", ".html">>
LogPaths ==
    [i \in 1..Len(LoggedSuffixes) |-> <<"/shop", "/asset", LoggedSuffixes[i]>>]
    \o <<(<<"/shop">>), (<<"/shop", "/cart">>), (<<"/shop", ".css", "/page">>), (<<"/about">>)>>
LogStatuses == <<(<<"2", "0", "0">>), (<<"4", "0", "4">>)>>
W3CIISLog ==
    {[TimeGenerated |-> Len(LogStatuses) * (p - 1) + s, csUriStem |-> LogPaths[p],
      scStatus |-> LogStatuses[s], sSiteName |-> <<"main">>] :
        p \in 1..Len(LogPaths), s \in 1..Len(LogStatuses)}

\* What the workspace answers: the rows that pass every where stage, newest
\* first, cut after take rows.
satisfies(row, c) ==
    CASE c.op = "between"    -> c.val[1] <= row[c.col] /\ row[c.col] <= c.val[2]
      [] c.op = "!endswith"  -> ~endswith(row[c.col], c.val)
      [] c.op = "contains"   -> contains(row[c.col], c.val)
      [] c.op = "startswith" -> startswith(row[c.col], c.val)
      [] c.op = "=="         -> row[c.col] = c.val
RECURSIVE newest_first(_)
newest_first(rows) ==
    IF rows = {} THEN <<>>
    ELSE LET r == CHOOSE x \in rows : \A y \in rows : y.TimeGenerated <= x.TimeGenerated
         IN <<r>> \o newest_first(rows \ {r})
run_query(q) ==
    LET hits == newest_first({r \in W3CIISLog :
                                 \A i \in 1..Len(q.where) : satisfies(r, q.where[i])})
    IN SubSeq(hits, 1, IF Len(hits) < q.take THEN Len(hits) ELSE q.take)

\* Lines 205-223: the result of search_logs when execute_query returned an
\* error dict, resp. the response.
search_logs(a, answer) ==
    IF answer = "error"
    THEN Ret([success |-> FALSE, logs |-> <<>>, count |-> 0])
    ELSE LET rows == run_query(query(a))
         IN Ret([success |-> TRUE, logs |-> rows, count |-> Len(rows)])

\* The arguments: no value or the empty string is <<>>.
SearchArgs ==
    [start_date : {1}, end_date : {Len(LogPaths), Cardinality(W3CIISLog)},
     url_filter : {<<>>, <<"/shop">>, <<".css">>, <<"/about">>},
     status_code : {<<>>, <<"4">>, <<"4", "0", "4">>, <<"2", "0", "0">>},
     site_name : {<<>>, <<"main">>, <<"other">>},
     limit : {1, 20, 100}]

SearchLogs == \E answer \in {"ok", "error"} : Apply("search_logs", search_logs(arg[1], answer))

SearchInit ==
    /\ LibraryIdle
    /\ func = "search_logs"
    /\ arg \in {<<a>> : a \in SearchArgs}
    /\ fpc = "idle"
    /\ out = NoCall

SearchNext == SearchLogs
SearchSpec == SearchInit /\ [][SearchNext]_vars

\* ------------------- AzureLogAnalyticsService.get_dashboard_summary
MaxBuckets == 3     \* most rows of the status histogram
MaxCount == 8       \* largest Count of one histogram row

\* "x or 0" and round(x, 1) on a decoded value; whole numbers are their own
\* rounding to one decimal.
or_zero(x) == IF Falsy(x) THEN JNum(0) ELSE x
round1(x) == x

\* round(count / total * 100, 1), in tenths of a percent. Where the quotient
\* lies exactly between two tenths, the direction depends on the binary
\* floating-point value, so it is an input (up).
percentage_NoTotal(count, total, up) == count * 1000
percentage(count, total, up) ==
    LET q == (count * 1000) \div total
        r == (count * 1000) % total
    IN IF 2 * r < total THEN q
       ELSE IF 2 * r > total THEN q + 1
       ELSE IF up THEN q + 1 ELSE q

RECURSIVE sum(_)
sum(ns) == IF ns = <<>> THEN 0 ELSE ns[1] + sum(Tail(ns))

\* Lines 291-304: the summary dict of the first summary row.
SummaryCounts == {"TotalRequests", "ErrorCount4xx", "ErrorCount5xx"}
SummaryTimes == {"AvgTimeTaken", "P50TimeTaken", "P90TimeTaken", "P99TimeTaken", "MaxTimeTaken"}
format_summary(summary_rows) ==
    IF summary_rows = <<>> THEN <<>>
    ELSE LET s == summary_rows[1]
         IN [totalRequests |-> get(s, "TotalRequests", JNum(0)),
             errorCount4xx |-> get(s, "ErrorCount4xx", JNum(0)),
             errorCount5xx |-> get(s, "ErrorCount5xx", JNum(0)),
             avgTimeTaken |-> round1(or_zero(get(s, "AvgTimeTaken", JNum(0)))),
             p50TimeTaken |-> round1(or_zero(get(s, "P50TimeTaken", JNum(0)))),
             p90TimeTaken |-> round1(or_zero(get(s, "P90TimeTaken", JNum(0)))),
             p99TimeTaken |-> round1(or_zero(get(s, "P99TimeTaken", JNum(0)))),
             maxTimeTaken |-> round1(or_zero(get(s, "MaxTimeTaken", JNum(0))))]

\* Lines 306-313: the formatted top pages.
format_top_pages(top_pages) ==
    [i \in 1..Len(top_pages) |->
        [url |-> get(top_pages[i], "csUriStem", JStr("Unknown")),
         requestCount |-> get(top_pages[i], "RequestCount", JNum(0)),
         avgTimeTaken |-> round1(or_zero(get(top_pages[i], "AvgTimeTaken", JNum(0))))]]

\* Lines 315-324: the formatted status distribution.
total_for_pct(status_dist) ==
    sum([i \in 1..Len(status_dist) |-> get(status_dist[i], "Count", JNum(0)).num])
format_status(status_dist, ups) ==
    [i \in 1..Len(status_dist) |->
        LET count == get(status_dist[i], "Count", JNum(0)).num
        IN [statusCode |-> get(status_dist[i], "scStatus", JNum(0)),
            count |-> count,
            percentage |-> IF total_for_pct(status_dist) > 0
                           THEN percentage(count, total_for_pct(status_dist), ups[i])
                           ELSE 0]]

\* Lines 273-284: each query is executed and its answer tested before the
\* next one; answers[i] is what the workspace answers query i when asked, and
\* first_error is the query at which the function returns (0: at none).
QueryAnswers == [1..Len(DashboardQueries) -> {"ok", "error"}]
AllOk == [i \in 1..Len(DashboardQueries) |-> "ok"]
ErrorsIn(answers) == {i \in DOMAIN answers : answers[i] = "error"}
first_error_Last(answers) ==
    IF ErrorsIn(answers) = {} THEN 0
    ELSE CHOOSE i \in ErrorsIn(answers) : \A j \in ErrorsIn(answers) : j <= i
first_error(answers) ==
    IF ErrorsIn(answers) = {} THEN 0
    ELSE CHOOSE i \in ErrorsIn(answers) : \A j \in ErrorsIn(answers) : i <= j

\* Lines 273-335: failing is the first of the three queries that returns an
\* error dict (0 when none does); rows are the parsed rows of the three.
\* error names the query whose error dict is returned and issued lists the
\* queries executed by then.
DashboardError(failing) ==
    [success |-> FALSE, error |-> DashboardQueries[failing],
     issued |-> SubSeq(DashboardQueries, 1, failing),
     summary |-> <<>>, topPages |-> <<>>, statusDistribution |-> <<>>]
get_dashboard_summary(rows, failing, ups) ==
    IF failing # 0 THEN Ret(DashboardError(failing))
    ELSE Ret([success |-> TRUE, error |-> "", issued |-> DashboardQueries,
              summary |-> format_summary(rows[1]),
              topPages |-> format_top_pages(rows[2]),
              statusDistribution |-> format_status(rows[3], ups)])

\* The parsed rows the function is applied to.
MetricValues == {JMissing, JNull, JNum(7)}
SummaryRowSets ==
    {<<>>} \cup {<<JObj(s)>> : s \in [SummaryCounts \cup SummaryTimes -> MetricValues]}
TopPageRowSets ==
    {<<>>} \cup {<<JObj([csUriStem |-> u, RequestCount |-> c, AvgTimeTaken |-> a])>> :
                    u \in {JMissing, JStr("/shop")}, c \in MetricValues, a \in MetricValues}
StatusRow(i, c) == JObj([scStatus |-> JStr(LogStatuses[1 + (i % 2)][1]), Count |-> c])
CountValues == {JMissing} \cup {JNum(c) : c \in 0..MaxCount}
StatusRowSets(n) == {[i \in 1..n |-> StatusRow(i, cs[i])] : cs \in [1..n -> CountValues]}
UsualSummaryRows == <<JObj([k \in SummaryCounts \cup SummaryTimes |-> JNum(7)])>>
UsualStatusRows == <<StatusRow(1, JNum(3)), StatusRow(2, JNum(1))>>
DashboardRows ==
    {<<s, <<>>, UsualStatusRows>> : s \in SummaryRowSets}
    \cup {<<UsualSummaryRows, t, UsualStatusRows>> : t \in TopPageRowSets}

GetDashboardSummary ==
    \E ups \in [1..Len(arg[3]) -> BOOLEAN] :
        Apply("get_dashboard_summary", get_dashboard_summary(arg, first_error(arg[4]), ups))

DashboardInit ==
    /\ LibraryIdle
    /\ func = "get_dashboard_summary"
    /\ \/ arg \in {<<r[1], r[2], r[3], AllOk>> : r \in DashboardRows}
       \/ \E n \in 0..MaxBuckets :
            arg \in {<<UsualSummaryRows, <<>>, d, AllOk>> : d \in StatusRowSets(n)}
       \/ arg \in {<<UsualSummaryRows, <<>>, UsualStatusRows, a>> : a \in QueryAnswers}
    /\ fpc = "idle"
    /\ out = NoCall

DashboardNext == GetDashboardSummary
DashboardSpec == DashboardInit /\ [][DashboardNext]_vars

\* -------------------------- NewRelicService._extract_percentiles
\* A result row is a dict in key order, written as the sequence of its
\* <<key, value>> items. The keys of a nested percentile dict are the
\* strings '50', '75', '90' or the integers 50, 75, 90 (written "int:50").
IntKey(k) == CASE k = "50" -> "int:50" [] k = "75" -> "int:75" [] k = "90" -> "int:90"
PercentileKeys == {"50", "75", "90", "int:50", "int:75", "int:90"}

\* "a or b"
py_or(a, b) == IF Falsy(a) THEN b ELSE a

\* Lines 221-223: percentile_dict.get('50') or percentile_dict.get(50)
nested_value(percentile_dict, k) ==
    py_or(get(percentile_dict, k, JNull), get(percentile_dict, IntKey(k), JNull))

\* Lines 193-236.
_extract_percentiles(nrql_results) ==
    IF nrql_results = <<>>
    THEN Ret([p50 |-> JNull, p75 |-> JNull, p90 |-> JNull])
    ELSE LET result == nrql_results[1]
         IN IF Len(result) > 0
            THEN LET percentile_dict == result[1][2]
                 IN IF percentile_dict.t = "obj"
                    THEN Ret([p50 |-> nested_value(percentile_dict, "50"),
                              p75 |-> nested_value(percentile_dict, "75"),
                              p90 |-> nested_value(percentile_dict, "90")])
                    ELSE Ret([p50 |-> percentile_dict, p75 |-> JNull, p90 |-> JNull])
            ELSE Ret([p50 |-> JNull, p75 |-> JNull, p90 |-> JNull])

\* The results the function is applied to: no row, an empty row, a row
\* whose first value is a percentile dict keyed by strings or by integers,
\* and rows of one to three top-level numbers; a second row may follow.
PercentileValues == {JMissing, JNull, JNum(0), JNum(1104)}
NestedDicts ==
    {JObj([k \in PercentileKeys |-> IF k \in {"50", "75", "90"} THEN vs[k] ELSE JMissing]) :
        vs \in [{"50", "75", "90"} -> PercentileValues]}
    \cup {JObj([k \in PercentileKeys |-> IF k \in {"50", "75", "90"}
                                         THEN JMissing ELSE vs[k]]) :
        vs \in [{"int:50", "int:75", "int:90"} -> PercentileValues]}
TopLevelKeys == <<"a", "b", "c">>
ScalarValues == {JNull, JNum(0), JNum(1104), JNum(1584)}
ResultRows ==
    {<<>>} \cup {<<(<<"LCP_ms", d>>)>> : d \in NestedDicts}
    \cup UNION {{[i \in 1..n |-> <<TopLevelKeys[i], vs[i]>>] : vs \in [1..n -> ScalarValues]} :
                  n \in 1..Len(TopLevelKeys)}
PercentileResults ==
    {<<>>} \cup {<<r>> : r \in ResultRows} \cup {<<r, (<<(<<"a", JNum(1584)>>)>>)>> : r \in ResultRows}

ExtractPercentiles == Apply("_extract_percentiles", _extract_percentiles(arg[1]))

PercentileInit ==
    /\ LibraryIdle
    /\ func = "_extract_percentiles"
    /\ arg \in {<<r>> : r \in PercentileResults}
    /\ fpc = "idle"
    /\ out = NoCall

PercentileNext == ExtractPercentiles
PercentileSpec == PercentileInit /\ [][PercentileNext]_vars

\* -------------- _parse_time_range_to_minutes, _parse_time_range_minutes
\* A time range is written as the list of its whitespace-separated parts
\* (the result of split()); a part is JNum(n) when int() accepts it with
\* value n, and JStr(w) otherwise.
MaxParts == 3       \* most parts of a time range
MinutesPerHour == 60
MinutesPerDay == 1440
DefaultMinutes == 60

\* str.lower() of a part, and "sub in unit" for the three substrings tested.
lower(w) == IF w = "HOURS" THEN "hours" ELSE w
UnitsWith == [hour |-> {"hour", "hours"}, minute |-> {"minute", "minutes"}, day |-> {"day", "days"}]
in_unit(sub, unit) == unit.t = "str" /\ lower(unit.str) \in UnitsWith[sub]

\* The statements shared by the two functions: app.py:1031-1042 and
\* newrelic_service.py:240-250, the closing "return 60" included.
parse_parts(parts) ==
    IF parts = <<>> THEN Exc("IndexError")
    ELSE IF parts[1].t # "num" THEN Exc("ValueError")
    ELSE IF Len(parts) < 2 THEN Exc("IndexError")
    ELSE IF in_unit("hour", parts[2]) THEN Ret(parts[1].num * MinutesPerHour)
    ELSE IF in_unit("minute", parts[2]) THEN Ret(parts[1].num)
    ELSE IF in_unit("day", parts[2]) THEN Ret(parts[1].num * MinutesPerDay)
    ELSE Ret(DefaultMinutes)

\* app.py:1028-1042: IndexError and ValueError are caught; return 60.
CaughtByApp == {"IndexError", "ValueError"}
_parse_time_range_to_minutes(time_range) ==
    LET body == parse_parts(time_range)
    IN IF body.raised /\ body.exc \in CaughtByApp THEN Ret(DefaultMinutes) ELSE body

\* newrelic_service.py:238-250: the same statements with no try around them.
_parse_time_range_minutes(time_range) == parse_parts(time_range)

TimeParts == {JNum(2), JNum(3), JNum(45)}
                \cup {JStr(w) : w \in {"hours", "hour", "HOURS", "minutes", "days", "weeks",
                                        "ago", "garbage"}}
TimeRanges == SeqsUpTo(TimeParts, MaxParts)

ParseTimeRangeToMinutes ==
    Apply("_parse_time_range_to_minutes", _parse_time_range_to_minutes(arg[1]))
ParseTimeRangeMinutes ==
    Apply("_parse_time_range_minutes", _parse_time_range_minutes(arg[1]))

TimeRangeInit ==
    /\ LibraryIdle
    /\ func \in {"_parse_time_range_to_minutes", "_parse_time_range_minutes"}
    /\ arg \in {<<tr>> : tr \in TimeRanges}
    /\ fpc = "idle"
    /\ out = NoCall

TimeRangeNext == ParseTimeRangeToMinutes \/ ParseTimeRangeMinutes
TimeRangeSpec == TimeRangeInit /\ [][TimeRangeNext]_vars

\* ------------------- NewRelicService.get_performance_overview (windows)
\* The time ranges the function writes into its query: SINCE time_range for
\* the current period, SINCE previous_start UNTIL previous_end for the
\* previous one. f"{n} minutes ago" is the range of the parts n, minutes, ago.
minutes_ago(n) == <<JNum(n), JStr("minutes"), JStr("ago")>>

get_performance_overview(time_range) ==
    LET minutes == _parse_time_range_minutes(time_range)
    IN IF minutes.raised THEN minutes
       ELSE Ret([since |-> time_range,
                 previous_start |-> minutes_ago(minutes.ret * 2),
                 previous_end |-> minutes_ago(minutes.ret)])

GetPerformanceOverview ==
    Apply("get_performance_overview", get_performance_overview(arg[1]))

OverviewInit ==
    /\ LibraryIdle
    /\ func = "get_performance_overview"
    /\ arg \in {<<tr>> : tr \in TimeRanges}
    /\ fpc = "idle"
    /\ out = NoCall

OverviewNext == GetPerformanceOverview
OverviewSpec == OverviewInit /\ [][OverviewNext]_vars

\* ------------------------------- NewRelicService.get_apm_metrics (status)
\* The function applied to the faceted result rows of the transactions,
\* database and external queries; of each produced record the model keeps
\* the average and the fields that tell the record kinds apart. Latencies
\* are whole milliseconds.
MaxRecords == 2     \* most rows of the transactions result
GoodBelow == 500
WarningBelow == 2000

\* t.get('avg_ms', 0) or 0
avg_ms_of(row) == py_or(get(row, "avg_ms", JNum(0)), JNum(0))

status_Inclusive(avg_ms) ==
    IF avg_ms <= GoodBelow THEN "good" ELSE IF avg_ms <= WarningBelow THEN "warning" ELSE "critical"
status(avg_ms) ==
    IF avg_ms < GoodBelow THEN "good" ELSE IF avg_ms < WarningBelow THEN "warning" ELSE "critical"

timed_record(row) == [avgTime |-> avg_ms_of(row).num, status |-> status(avg_ms_of(row).num)]
database_record(row) == [avgDuration |-> avg_ms_of(row).num, type |-> "SQL"]

\* A comparison or round() of a value that is no number raises TypeError,
\* which the function catches (newrelic_service.py:476-478).
ApmParseError == [error |-> "Error parsing APM response"]
get_apm_metrics(transactions_raw, database_raw, external_raw) ==
    IF \E rows \in {transactions_raw, database_raw, external_raw} :
          \E i \in 1..Len(rows) : avg_ms_of(rows[i]).t # "num"
    THEN Ret(ApmParseError)
    ELSE Ret([success |-> TRUE,
              transactions |-> [i \in 1..Len(transactions_raw) |-> timed_record(transactions_raw[i])],
              database |-> [i \in 1..Len(database_raw) |-> database_record(database_raw[i])],
              external |-> [i \in 1..Len(external_raw) |-> timed_record(external_raw[i])]])

AvgValues == {JMissing, JNull, JStr("slow")}
                \cup {JNum(n) : n \in {0, GoodBelow - 1, GoodBelow, WarningBelow - 1,
                                       WarningBelow, WarningBelow + 1}}
ApmRows == {JObj([avg_ms |-> v]) : v \in AvgValues}

GetApmMetrics == Apply("get_apm_metrics", get_apm_metrics(arg[1], arg[2], arg[3]))

ApmInit ==
    /\ LibraryIdle
    /\ func = "get_apm_metrics"
    /\ \E t \in SeqsUpTo(ApmRows, MaxRecords), d \in SeqsUpTo(ApmRows, 1), e \in SeqsUpTo(ApmRows, 1) :
          arg = <<t, d, e>>
    /\ fpc = "idle"
    /\ out = NoCall

ApmNext == GetApmMetrics
ApmSpec == ApmInit /\ [][ApmNext]_vars

\* ------------------------------ provider methods called on their own
\* arg: the provider, whether the service has an API key, what the SDK does
\* with the request, and the words its exception text contains.
provider_call(f, a) ==
    LET r == IF f = "analyze" THEN analyze(a[1], a[2], a[3], a[4])
                              ELSE follow_up(a[1], a[2], a[3], a[4])
    IN IF r.raised THEN Exc("BaseException") ELSE Ret(r.ret)

Analyze == Apply("analyze", provider_call("analyze", arg))
FollowUp == Apply("follow_up", provider_call("follow_up", arg))

ProviderInit ==
    /\ LibraryIdle
    /\ func \in {"analyze", "follow_up"}
    /\ arg \in Providers \X BOOLEAN \X ApiOutcomes \X (SUBSET ErrorWords)
    /\ fpc = "idle"
    /\ out = NoCall

ProviderNext == Analyze \/ FollowUp
ProviderSpec == ProviderInit /\ [][ProviderNext]_vars

\* ================================================================ claims
\* Vocabulary of the properties below.
IsSuccess(r) == r.tag = "success"
IsFailure(r) == r.tag = "error"
Called(p) == \E i \in 1..Len(calls) : calls[i].provider = p
HasLine(l) == \E i \in 1..Len(user_message) : user_message[i] = l
Built == user_message # <<>>

\* C1 (as claimed): when the request completes, the response holds for every
\* requested provider a Success or a structured Failure, never null.
C1_OneEntryPerRequestedProvider ==
    pc = "completed" =>
        \A p \in req.providers : IsSuccess(response[p]) \/ IsFailure(response[p])

\* C2: in run_parallel_analysis, when one provider's call raised and the
\* other's succeeded, the raising provider's entry is its own error dict and
\* the sibling's entry is the sibling's Success, at every point after each
\* was collected and in whatever order they completed; on return both are
\* in the map.
C2_SiblingIsolation ==
    entry = "run_parallel_analysis" =>
        \A p, q \in Providers :
            ( /\ p # q
              /\ futures[p].state = "done" /\ futures[p].raised
              /\ futures[q].state = "done" /\ ~futures[q].raised
              /\ IsSuccess(futures[q].ret) )
            => /\ p \in YieldedSet => results[p] = ErrorResult(UnexpectedMsg[p])
               /\ q \in YieldedSet => results[q] = SuccessResult(q)
               /\ p \notin YieldedSet => results[p] = NoneResult
               /\ pc = "returned" => {p, q} \subseteq YieldedSet

\* C2 witness: claude raised and was collected first, openai succeeded and
\* was collected second, and the orchestrator has returned.
C2_Witness ==
    /\ entry = "run_parallel_analysis"
    /\ pc = "returned"
    /\ futures["claude"].raised
    /\ IsSuccess(futures["openai"].ret)
    /\ yielded = <<"claude", "openai">>

\* C3 (as claimed): a requested provider without a key is never called and
\* its entry in the response is the missing-credential Failure.
C3_MissingCredentialReported ==
    pc = "completed" =>
        \A p \in req.providers \ req.keys :
            /\ ~Called(p)
            /\ response[p] = ErrorResult(NotConfiguredMsg[p])

\* C4: run_parallel_analysis and run_parallel_followup have returned only
\* when no submitted call is pending or running, and the returned map holds
\* the outcome of every submitted call.
C4_ReturnsAfterAllSettled ==
    pc = "returned" =>
        \A p \in Providers :
            /\ futures[p].state \in {"unsubmitted", "done"}
            /\ futures[p].state = "done" =>
                  IF futures[p].raised
                  THEN IsFailure(results[p])
                  ELSE results[p] = futures[p].ret
            /\ futures[p].state = "unsubmitted" => results[p] = NoneResult

\* C4 witness: a follow-up with both calls submitted has returned, the
\* call submitted second having completed first.
C4_Witness ==
    /\ entry = "run_parallel_followup"
    /\ pc = "returned"
    /\ Submitted = Providers
    /\ yielded = <<"openai", "claude">>

\* The lifetime the endpoint gave token k, and the time from which the
\* client must not serve it any more.
Lifetime(k) == get_expires_in(issued[k].expires_in)
OwnDeadline(k) == issued[k].stored_at[1] + Lifetime(k) - SafetyMargin

\* C5: with one caller at a time, a call whose cache test runs at time t
\* with token k cached (acquired at T with lifetime E) returns k without an
\* exchange exactly when t < T + E - 60, and performs an exchange otherwise;
\* a call that finds no cached token performs an exchange.
C5_TokenReuseWindow ==
    \A t \in DOMAIN served :
        served[t].valid =>
            LET c == served[t]
                k == served[t].cached
            IN IF k = 0
               THEN c.exchanged
               ELSE (c.at < OwnDeadline(k)) <=> (~c.exchanged /\ c.value = k)

\* C5 witness: token 1 came without expires_in (3600 s); a call exactly
\* 3540 s after its acquisition exchanged it for token 2.
C5_Witness ==
    /\ served[1].valid /\ served[1].exchanged
    /\ served[1].cached = 1 /\ served[1].value = 2
    /\ issued[1].expires_in = <<>>
    /\ served[1].at = issued[1].stored_at[1] + (DefaultExpiresIn - SafetyMargin)

\* C6 (as claimed): once all concurrent _get_token calls have finished, the
\* cached expiry is the one computed for the cached token, so that a call
\* made then is not served the token at or after the token's own expiry
\* minus 60 s.
C6_RefreshIdempotent ==
    ((\A t \in DOMAIN tpc : tpc[t] = "idle") /\ token # 0) =>
        /\ issued[token].stored_at # <<>>
        /\ token_expiry = <<OwnDeadline(token)>>
        /\ cache_valid(now) => now < OwnDeadline(token)

\* Some upstream call of the request returned success.
SourceYielded == \E c \in UpstreamCalls : call_result[c] = "success"

C8_MarkerIffNoSection ==
    Built =>
        /\ (~HasLine(CWVHeading) /\ ~HasLine(LogsHeading)) => HasLine(NoDataMarker)
        /\ (DictNonEmpty(newrelic_data) \/ DictNonEmpty(iis_data)) => ~HasLine(NoDataMarker)

\* The position of a line in the document.
IndexOf(l) == CHOOSE i \in 1..Len(user_message) : user_message[i] = l

\* The headings the document can carry, and whether a source's section is
\* in the document.
SectionHeading == [core_web_vitals |-> CWVHeading, slow_requests |-> LogsHeading]
Rendered(k) == k \in DOMAIN SectionHeading /\ HasLine(SectionHeading[k])

Phase ==
    CASE pc \in {"validate", "nr_start", "nr_cwv", "nr_perf", "nr_apm",
                 "az_start", "az_summary", "az_search", "check_data"} -> "Gathering"
      [] pc = "build" -> "Assembling"
      [] pc \in {"submit_claude", "submit_openai", "collect", "returned"} -> "Dispatching"
      [] pc = "completed" -> "Completed"
      [] OTHER -> "Rejected"
PhaseRank == [Gathering |-> 1, Assembling |-> 2, Dispatching |-> 3, Completed |-> 4, Rejected |-> 4]

\* C10 (as claimed): the phases only advance; upstream queries are issued in
\* Gathering only; a provider is submitted or called only once the document
\* is assembled; a completed request has a result for every requested
\* provider.
C10_PhaseOrder ==
    [][ /\ PhaseRank[Phase'] >= PhaseRank[Phase]
        /\ upstream' # upstream => Phase = "Gathering"
        /\ (calls' # <<>> \/ Submitted' # {}) => (Phase' \in {"Dispatching", "Completed"} /\ Built')
        /\ Phase' = "Completed" =>
              \A p \in req.providers : IsSuccess(response'[p]) \/ IsFailure(response'[p])
      ]_vars

\* Whether an upstream call or query was issued, and whether the gathering
\* steps of the request are over.
Attempted(c) == \E i \in 1..Len(upstream) : upstream[i] = c
GatheringDone ==
    pc \in {"check_data", "rejected_nodata", "build", "submit_claude", "submit_openai",
            "collect", "returned", "completed"}

\* C11 (as claimed): once gathering is over, every data type of a configured
\* source was attempted, whatever the other calls did, and the data of every
\* call that succeeded is in the dicts passed on.
C11_NoAbort ==
    GatheringDone =>
        /\ req.nr => /\ req.page_url => Attempted("cwv")
                     /\ Attempted("perf")
                     /\ Attempted("apm")
        /\ req.az => /\ \A i \in 1..Len(DashboardQueries) : Attempted(DashboardQueries[i])
                     /\ Attempted("search")
        /\ call_result["cwv"] = "success" => newrelic_data["core_web_vitals"] # "absent"
        /\ call_result["perf"] = "success" => newrelic_data["performance_overview"] # "absent"
        /\ call_result["apm"] = "success" => newrelic_data["apm_metrics"] # "absent"
        /\ call_result["summary"] = "success" =>
              \A k \in {"summary", "status_distribution", "top_pages"} : iis_data[k] # "absent"
        /\ call_result["search"] = "success" => iis_data["slow_requests"] # "absent"

\* What the response says about a provider or a data source, and which of
\* the three situations the request was in for it.
Sources == {"newrelic", "iis_logs"}
SourceConfigured == [newrelic |-> req.nr, iis_logs |-> req.az]
SourceCalls == [newrelic |-> {"cwv", "perf", "apm"}, iis_logs |-> {"summary", "search"}]
SourceSituation(s) ==
    IF ~SourceConfigured[s] THEN "not_configured"
    ELSE IF \E c \in SourceCalls[s] : call_result[c] = "success" THEN "succeeded"
    ELSE "failed"
ProviderSituation(p) ==
    IF svc[p] = "none" THEN "not_configured"
    ELSE IF futures[p].state = "done" /\ ~futures[p].raised /\ IsSuccess(futures[p].ret)
         THEN "succeeded"
    ELSE "failed"

\* C12 (as claimed): in a response, a provider resp. a data source that
\* succeeded, was not configured or was attempted and failed is reported by
\* a value of its own: success is reported by the success dict resp. true,
\* not configured by null resp. false, and a failed attempt by a value that
\* is neither of the two.
C12_ThreeSituationsDistinct ==
    pc = "completed" =>
        /\ \A p \in Providers :
              /\ ProviderSituation(p) = "succeeded" => response[p] = SuccessResult(p)
              /\ ProviderSituation(p) = "not_configured" => response[p] = NoneResult
              /\ ProviderSituation(p) = "failed" =>
                    response[p] \notin {SuccessResult(p), NoneResult}
        /\ \A s \in Sources :
              /\ SourceSituation(s) = "succeeded" => response[s] = TRUE
              /\ SourceSituation(s) = "not_configured" => response[s] = FALSE
              /\ SourceSituation(s) = "failed" => response[s] \notin {TRUE, FALSE}

\* The error kind of the interface that an error message stands for.
ErrorKind(msg) ==
    CASE msg \in TokenErrorMsgs -> "AuthFailure"
      [] msg = ForbiddenMsg -> "Forbidden"
      [] msg = TimeoutMsg -> "Timeout"
      [] msg \in {UpstreamMsg, InvalidJsonMsg} -> "UpstreamError"
      [] OTHER -> "none"

\* C13 (as claimed): a finished execute_query call has not raised; it
\* returned the payload exactly when the post succeeded, an AuthFailure
\* exactly when the token exchange failed, Forbidden exactly on HTTP 403,
\* Timeout exactly on a timeout and an UpstreamError on every other failure.
C13_ExecuteQueryTotal ==
    (func = "execute_query" /\ out.valid) =>
        /\ ~out.raised
        /\ out.payload <=> out.cause = "ok"
        /\ out.payload => out.error = ""
        /\ ErrorKind(out.error) = "AuthFailure" <=> out.cause = "token_failed"
        /\ ErrorKind(out.error) = "Forbidden" <=> out.cause = "forbidden"
        /\ ErrorKind(out.error) = "Timeout" <=> out.cause = "timeout"
        /\ ErrorKind(out.error) = "UpstreamError"
              <=> out.cause \in {"http_error", "connection_error", "invalid_json"}

\* The shapes of a response that the property below distinguishes.
TablesOf(resp) == resp.obj["tables"]
HasTable(resp) ==
    /\ resp.t = "obj"
    /\ TablesOf(resp).t = "list" /\ TablesOf(resp).list # <<>>
    /\ TablesOf(resp).list[1].t = "obj"
ColumnsOf(resp) == TablesOf(resp).list[1].obj["columns"]
RowsOf(resp) == TablesOf(resp).list[1].obj["rows"]
ColumnLacksName(resp) ==
    /\ HasTable(resp)
    /\ ColumnsOf(resp).t = "list"
    /\ \E i \in 1..Len(ColumnsOf(resp).list) :
          ColumnsOf(resp).list[i].t = "obj" /\ ColumnsOf(resp).list[i].obj["name"].t = "missing"
RowNotArray(resp) ==
    /\ HasTable(resp)
    /\ RowsOf(resp).t = "list"
    /\ \E i \in 1..Len(RowsOf(resp).list) : RowsOf(resp).list[i].t # "list"
WellFormedTable(resp) ==
    /\ HasTable(resp)
    /\ ColumnsOf(resp).t = "list" /\ RowsOf(resp).t = "list"
    /\ \A i \in 1..Len(ColumnsOf(resp).list) :
          ColumnsOf(resp).list[i].t = "obj" /\ ColumnsOf(resp).list[i].obj["name"].t = "str"
    /\ \A i, j \in 1..Len(ColumnsOf(resp).list) :
          i # j => ColumnsOf(resp).list[i] # ColumnsOf(resp).list[j]
    /\ \A i \in 1..Len(RowsOf(resp).list) :
          RowsOf(resp).list[i].t = "list" /\ Len(RowsOf(resp).list[i].list) = Len(ColumnsOf(resp).list)
ExpectedRecords(resp) ==
    [i \in 1..Len(RowsOf(resp).list) |->
        [j \in 1..Len(ColumnsOf(resp).list) |->
            <<ColumnsOf(resp).list[j].obj["name"], RowsOf(resp).list[i].list[j]>>]]

\* C14 (as claimed): _parse_table_response never raises; it returns the
\* empty list for a response that is not an object, for missing, null or
\* empty tables, for a table with a column that lacks a name and for rows
\* that are not arrays; for a well-formed table it returns one record per
\* row, in row order, pairing the i-th column name with the i-th value.
C14_ParseTableTotal ==
    (func = "_parse_table_response" /\ fpc = "done") =>
        /\ ~out.raised
        /\ arg[1].t # "obj" => out.ret = <<>>
        /\ (arg[1].t = "obj" /\ Falsy(get(arg[1], "tables", JList(<<>>)))) => out.ret = <<>>
        /\ ColumnLacksName(arg[1]) => out.ret = <<>>
        /\ RowNotArray(arg[1]) => out.ret = <<>>
        /\ WellFormedTable(arg[1]) => out.ret = ExpectedRecords(arg[1])

\* The ten static-asset suffixes of the interface.
AssetSuffixes == {".css", ".js", ".png", ".jpg", ".gif", ".ico", ".woff", ".woff2", ".svg", ".map"}
IsAsset(path) == \E s \in AssetSuffixes : endswith(path, <<s>>)

Percentages == [i \in 1..Len(out.ret.statusDistribution) |-> out.ret.statusDistribution[i].percentage]
OffHundred == IF sum(Percentages) < 1000 THEN 1000 - sum(Percentages) ELSE sum(Percentages) - 1000

\* C16: in the status distribution produced by get_dashboard_summary, when
\* the total count is positive the percentages sum to 100 up to the rounding
\* of each bucket to one decimal (half a tenth per bucket), and when the
\* total count is 0 every percentage is 0.
C16_PercentagesSum ==
    (func = "get_dashboard_summary" /\ fpc = "done" /\ out.ret.success) =>
        /\ Len(Percentages) = Len(arg[3])
        /\ total_for_pct(arg[3]) > 0 => 2 * OffHundred <= Len(Percentages)
        /\ total_for_pct(arg[3]) = 0 => \A i \in 1..Len(Percentages) : Percentages[i] = 0

\* C16 witness: the counts 8, 7 and 1: 43.75 and 6.25 percent lie exactly
\* between two tenths, both were rounded up, and the sum is 100.1.
C16_Witness ==
    /\ func = "get_dashboard_summary" /\ fpc = "done" /\ out.ret.success
    /\ Len(arg[3]) = 3
    /\ [i \in 1..3 |-> get(arg[3][i], "Count", JNum(0)).num] = <<8, 7, 1>>
    /\ Percentages = <<500, 438, 63>>

\* The shapes of a result list, and the value a percentile dict stores for
\* a percentile (JMissing when it has neither key).
FirstValue(nrql_results) == nrql_results[1][1][2]
IsNested(nrql_results) == nrql_results # <<>> /\ nrql_results[1] # <<>> /\ FirstValue(nrql_results).t = "obj"
Stored(d, k) == IF d.obj[k].t # "missing" THEN d.obj[k] ELSE d.obj[IntKey(k)]
AsReturned(x) == IF x.t = "missing" THEN JNull ELSE x
OutPercentile == [p \in {"50", "75", "90"} |->
                    CASE p = "50" -> out.ret.p50 [] p = "75" -> out.ret.p75 [] p = "90" -> out.ret.p90]

\* C17 (as claimed): _extract_percentiles returns three nulls for an empty
\* result list; for a first row whose value is a dict keyed by 50, 75, 90
\* (strings or integers) it returns under p50, p75, p90 exactly the value
\* stored under the key, 0 included, and null for a missing key.
C17_NestedPercentiles ==
    (func = "_extract_percentiles" /\ fpc = "done") =>
        /\ ~out.raised
        /\ arg[1] = <<>> => out.ret = [p50 |-> JNull, p75 |-> JNull, p90 |-> JNull]
        /\ IsNested(arg[1]) =>
              \A p \in {"50", "75", "90"} :
                  OutPercentile[p] = AsReturned(Stored(FirstValue(arg[1]), p))

\* C18 (as claimed): for a first row without a nested dict and with three
\* top-level keys, _extract_percentiles returns their values, in key order,
\* as p50, p75 and p90.
C18_TopLevelTriple ==
    (func = "_extract_percentiles" /\ fpc = "done") =>
        ((arg[1] # <<>> /\ Len(arg[1][1]) = 3 /\ ~IsNested(arg[1])) =>
            out.ret = [p50 |-> arg[1][1][1][2], p75 |-> arg[1][1][2][2], p90 |-> arg[1][1][3][2]])

\* The key of the summary dict that carries a column of the summary row,
\* and whether the row has no number for a column.
SummaryKey ==
    [TotalRequests |-> "totalRequests", ErrorCount4xx |-> "errorCount4xx",
     ErrorCount5xx |-> "errorCount5xx", AvgTimeTaken |-> "avgTimeTaken",
     P50TimeTaken |-> "p50TimeTaken", P90TimeTaken |-> "p90TimeTaken",
     P99TimeTaken |-> "p99TimeTaken", MaxTimeTaken |-> "maxTimeTaken"]
AbsentIn(row, k) == row.obj[k].t \in {"missing", "null"}

\* C19 (as claimed), for the log dashboard summary: a request count or a
\* latency statistic that is absent or null in the summary row is null in
\* the summary built from it, never 0.
C19_AbsenceIsKept ==
    (func = "get_dashboard_summary" /\ fpc = "done" /\ out.ret.success /\ arg[1] # <<>>) =>
        \A k \in SummaryCounts \cup SummaryTimes :
            AbsentIn(arg[1][1], k) => out.ret.summary[SummaryKey[k]] = JNull

\* The minutes that a unit of the interface stands for (0: not a unit), and
\* the minutes of a time range that starts with an integer and a unit.
UnitMinutes(part) ==
    IF part.t # "str" THEN 0
    ELSE CASE lower(part.str) \in {"minute", "minutes"} -> 1
           [] lower(part.str) \in {"hour", "hours"} -> 60
           [] lower(part.str) \in {"day", "days"} -> 1440
           [] OTHER -> 0
IsTimeRange(parts) == Len(parts) >= 2 /\ parts[1].t = "num" /\ UnitMinutes(parts[2]) > 0

\* C20 (as claimed): both parsers return value, value x 60 or value x 1440
\* for an integer followed by a minute, hour or day unit, and return 60,
\* without raising, for every other string.
C20_TimeRangeParse ==
    (func \in {"_parse_time_range_to_minutes", "_parse_time_range_minutes"} /\ fpc = "done") =>
        /\ ~out.raised
        /\ out.ret = IF IsTimeRange(arg[1])
                     THEN arg[1][1].num * UnitMinutes(arg[1][2])
                     ELSE 60

\* The length in minutes of the window that a time range "n unit ago"
\* denotes in a SINCE clause (0: the parts are no such range).
WindowUnits == [minute |-> 1, minutes |-> 1, hour |-> 60, hours |-> 60,
                day |-> 1440, days |-> 1440, week |-> 10080, weeks |-> 10080]
IsRange(parts) ==
    /\ Len(parts) = 3 /\ parts[1].t = "num" /\ parts[2].t = "str" /\ parts[3] = JStr("ago")
    /\ lower(parts[2].str) \in DOMAIN WindowUnits
WindowMinutes(parts) == parts[1].num * WindowUnits[lower(parts[2].str)]
OverviewDone == func = "get_performance_overview" /\ fpc = "done" /\ ~out.raised

\* C21 (as claimed): get_performance_overview queries the previous period
\* from 2N to N minutes ago, N the parsed length of the time range, and for
\* every time range that denotes a window the previous window has the length
\* of the current window and ends where the current window begins.
C21_PreviousWindow ==
    OverviewDone =>
        /\ out.ret.previous_start = minutes_ago(2 * _parse_time_range_minutes(arg[1]).ret)
        /\ out.ret.previous_end = minutes_ago(_parse_time_range_minutes(arg[1]).ret)
        /\ IsRange(out.ret.since) =>
              /\ WindowMinutes(out.ret.previous_end) = WindowMinutes(out.ret.since)
              /\ WindowMinutes(out.ret.previous_start) - WindowMinutes(out.ret.previous_end)
                    = WindowMinutes(out.ret.since)

\* The class the interface gives a latency, and the average a result row
\* carries (a row without a number counts as 0 ms).
LatencyClass(ms) == IF ms < 500 THEN "good" ELSE IF ms < 2000 THEN "warning" ELSE "critical"
ApmDone == func = "get_apm_metrics" /\ fpc = "done" /\ "success" \in DOMAIN out.ret
RowAverage(row) == IF row.obj.avg_ms.t = "num" THEN row.obj.avg_ms.num ELSE 0

\* C22: get_apm_metrics gives every transaction record and every
\* external-call record the status 'good' for an average below 500 ms,
\* 'warning' from 500 ms to below 2000 ms and 'critical' from 2000 ms on;
\* database records carry no status field.
C22_StatusByLatency ==
    ApmDone =>
        /\ Len(out.ret.transactions) = Len(arg[1])
        /\ Len(out.ret.database) = Len(arg[2])
        /\ Len(out.ret.external) = Len(arg[3])
        /\ \A i \in 1..Len(arg[1]) :
              out.ret.transactions[i].status = LatencyClass(RowAverage(arg[1][i]))
        /\ \A i \in 1..Len(arg[3]) :
              out.ret.external[i].status = LatencyClass(RowAverage(arg[3][i]))
        /\ \A i \in 1..Len(arg[2]) : "status" \notin DOMAIN out.ret.database[i]

\* C22 witness: transactions at exactly 500 ms and 2000 ms, an external
\* call at 499 ms and a database record.
C22_Witness ==
    /\ ApmDone
    /\ Len(arg[1]) = 2 /\ RowAverage(arg[1][1]) = 500 /\ RowAverage(arg[1][2]) = 2000
    /\ out.ret.transactions[1].status = "warning" /\ out.ret.transactions[2].status = "critical"
    /\ Len(arg[3]) = 1 /\ RowAverage(arg[3][1]) = 499 /\ out.ret.external[1].status = "good"
    /\ Len(arg[2]) = 1

\* C23: during a call of run_parallel_followup no step changes the
\* caller's history lists claude_messages and openai_messages, whatever
\* each provider call does (success, error result or exception).
C23_HistoryUntouched ==
    [][entry = "run_parallel_followup" => messages' = messages]_vars

\* C23 witness: a follow-up over two histories of two turns has returned;
\* the Claude call raised, the OpenAI call sent its request and succeeded.
C23_Witness ==
    /\ entry = "run_parallel_followup" /\ pc = "returned"
    /\ messages = [claude |-> <<"user", "assistant">>, openai |-> <<"assistant", "user">>]
    /\ results["claude"] = ErrorResult(UnexpectedMsg["claude"])
    /\ IsSuccess(results["openai"])
    /\ \E i \in 1..Len(calls) :
          calls[i].provider = "openai" /\ calls[i].request.messages = <<"system", "assistant", "user">>

\* The calls of provider p's method made so far.
CallsOf(p) == {i \in 1..Len(calls) : calls[i].provider = p}
FollowupReturned == entry = "run_parallel_followup" /\ pc = "returned"

\* C24 (as claimed): when run_parallel_followup has returned, every
\* provider with a service has had exactly one follow_up call, for every
\* history including an empty one, with the system prompt and its history in
\* the original order (OpenAI sends the system message, then the history),
\* and has a result; a provider without a service has had no call.
C24_OneFollowupEach ==
    FollowupReturned =>
        \A p \in Providers :
            IF svc[p] = "none" THEN CallsOf(p) = {}
            ELSE /\ Cardinality(CallsOf(p)) = 1
                 /\ \A i \in CallsOf(p) :
                       /\ calls[i].fn = "follow_up"
                       /\ calls[i].system_prompt = SystemPrompt
                       /\ calls[i].history = messages[p]
                       /\ calls[i].request.made =>
                             IF p = "openai"
                             THEN calls[i].request.messages = <<"system">> \o messages[p]
                             ELSE /\ calls[i].request.system = SystemPrompt
                                  /\ calls[i].request.messages = messages[p]
                 /\ results[p] # NoneResult

\* C25: within one analysis request each provider's analyze is invoked at
\* most once and each upstream telemetry query is issued at most once,
\* whatever its outcome.
C25_NoRetry ==
    entry = "ai_analyze" =>
        /\ \A p \in Providers : Cardinality(CallsOf(p)) <= 1
        /\ \A i \in 1..Len(calls) : calls[i].fn = "analyze"
        /\ \A i, j \in 1..Len(upstream) : upstream[i] = upstream[j] => i = j

\* C25 witness: a completed request in which an upstream query returned an
\* error, another raised, and a provider call failed; each was made once.
C25_Witness ==
    /\ pc = "completed"
    /\ call_result["cwv"] = "error" /\ call_result["perf"] = "success"
    /\ call_result["summary"] = "raised"
    /\ upstream = <<"cwv", "perf", "apm", "summary_query", "top_pages_query">>
    /\ IsFailure(response["claude"]) /\ Cardinality(CallsOf("claude")) = 1

\* The error kind that the interface gives a failed provider call, and the
\* kind that an error message of provider p reports. OpenAI has one message
\* for every error it does not recognise; it is read as UpstreamError.
ExpectedKind(has_key, outcome) ==
    IF ~has_key THEN "MissingCredential"
    ELSE CASE outcome = "auth_error" -> "AuthenticationFailed"
           [] outcome = "rate_limit" -> "RateLimited"
           [] outcome = "api_error" -> "UpstreamError"
           [] OTHER -> "Unknown"
ReportedKind(p, msg) ==
    CASE msg = NotConfiguredMsg[p] -> "MissingCredential"
      [] msg = InvalidKeyMsg[p] -> "AuthenticationFailed"
      [] msg = RateLimitMsg[p] -> "RateLimited"
      [] msg = ApiErrorMsg[p] -> "UpstreamError"
      [] msg \in {OtherErrorMsg[p], UnexpectedMsg[p]} -> "Unknown"
      [] OTHER -> "none"
ProviderCallFailed ==
    /\ func \in {"analyze", "follow_up"} /\ fpc = "done"
    /\ ~arg[2] \/ arg[3] \notin {"ok", "escape"}

\* C26 (as claimed): a failed analyze or follow_up call of either provider
\* returns a Failure whose message reports the error kind of what happened:
\* MissingCredential without a key, AuthenticationFailed, RateLimited,
\* UpstreamError for any other API error, Unknown for any other exception.
C26_ErrorKinds ==
    ProviderCallFailed =>
        /\ ~out.raised
        /\ IsFailure(out.ret)
        /\ ReportedKind(arg[1], out.ret.msg) = ExpectedKind(arg[2], arg[3])

\* The order the interface gives the upstream telemetry calls.
UpstreamOrder ==
    <<"cwv", "perf", "apm", "summary_query", "top_pages_query", "status_query", "search">>
UpstreamRank(c) == CHOOSE i \in 1..Len(UpstreamOrder) : UpstreamOrder[i] = c
LastUpstream == upstream[Len(upstream)]

\* C27: within one analysis request every step of the handler issues at most
\* one upstream call and has its answer before the next step; the calls are
\* issued in the order core-web-vitals, performance overview, APM metrics,
\* summary, top-pages, status-distribution, log search; and no provider call
\* is in progress while an upstream call is made.
C27_UpstreamSequential ==
    [][(entry = "ai_analyze" /\ upstream' # upstream) =>
          /\ \E i \in 1..Len(UpstreamOrder) : upstream' = Append(upstream, UpstreamOrder[i])
          /\ upstream # <<>> => UpstreamRank(LastUpstream) < UpstreamRank(LastUpstream')
          /\ Submitted = {} /\ calls = <<>>]_vars

\* C27 witness: all seven upstream calls of a request were issued, in the
\* order of the interface, and the request went on to completion.
C27_Witness == pc = "completed" /\ upstream = UpstreamOrder

\* The first query of get_dashboard_summary that is answered with an error
\* (0 when every query is answered).
FirstFailing ==
    IF \E i \in 1..3 : arg[4][i] = "error"
    THEN CHOOSE i \in 1..3 : arg[4][i] = "error" /\ \A j \in 1..(i - 1) : arg[4][j] = "ok"
    ELSE 0
DashboardDone == func = "get_dashboard_summary" /\ fpc = "done"

\* C28: get_dashboard_summary returns a summary exactly when all three
\* queries were answered; otherwise it returns the error of the first query
\* answered with an error, has issued no query after that one, and its
\* result holds no summary, top pages or status distribution.
C28_AllOrNothing ==
    DashboardDone =>
        /\ out.ret.success <=> FirstFailing = 0
        /\ FirstFailing = 0 => out.ret.issued = <<"summary_query", "top_pages_query", "status_query">>
        /\ FirstFailing # 0 =>
              /\ out.ret.error = <<"summary_query", "top_pages_query", "status_query">>[FirstFailing]
              /\ Len(out.ret.issued) = FirstFailing
              /\ out.ret.summary = <<>> /\ out.ret.topPages = <<>>
              /\ out.ret.statusDistribution = <<>>

\* C28 witness: the summary query was answered, the top-pages query and the
\* status query would both fail; the call returned the top-pages error after
\* two queries.
C28_Witness ==
    /\ DashboardDone
    /\ arg[4] = <<"ok", "error", "error">>
    /\ ~out.ret.success /\ out.ret.error = "top_pages_query"
    /\ out.ret.issued = <<"summary_query", "top_pages_query">>

\* The token and the expiry that the current _get_token call found in the
\* cache on entry.
EntryToken == IF tpc[1] = "raised" THEN tlocal[1].cached ELSE served[1].cached
EntryExpiry == IF tpc[1] = "raised" THEN tlocal[1].cached_expiry ELSE served[1].cached_expiry

\* The step in which execute_query ends without a token from _get_token.
ExecEndsWithoutToken ==
    /\ fpc = "get_token" /\ fpc' = "idle"
    /\ out'.cause \in {"token_failed", "token_malformed"}

C30_UnselectedNeverCalled ==
    entry = "ai_analyze" =>
        \A p \in Providers :
            /\ p \notin req.providers =>
                  /\ CallsOf(p) = {}
                  /\ futures[p].state = "unsubmitted"
                  /\ svc[p] = "none"
            /\ svc[p] = "none" => futures[p].state = "unsubmitted"

\* C30 witness: the request selects Claude only and supplies both keys; it
\* completed with one call to Claude and none to OpenAI.
C30_Witness ==
    /\ entry = "ai_analyze" /\ pc = "completed"
    /\ req.providers = {"claude"} /\ req.keys = Providers
    /\ CallsOf("claude") # {} /\ CallsOf("openai") = {}
    /\ futures["openai"].state = "unsubmitted"

====
